---------------------------- MODULE Spec2Model ----------------------------
(***************************************************************************)
(* A model of the matrixgl library (vectors, matrices, quaternions).       *)
(*                                                                         *)
(* The library is a set of classes whose instances own one Float32Array.   *)
(* The model keeps a heap of such instances and one record describing the  *)
(* last client call.  Every method of the library is an operator that      *)
(* takes the heap, the receiver and the arguments and yields the new heap  *)
(* and the returned value, translated statement by statement.              *)
(*                                                                         *)
(* Numbers are exact: a number is a fraction <<n, d>> in lowest terms with *)
(* d > 0, extended with <<1, 0>> (Infinity), <<-1, 0>> (-Infinity) and     *)
(* <<0, 0>> (NaN), which division by zero produces as in IEEE-754.  The    *)
(* rounding of a stored value to single precision and the sign of zero     *)
(* are not represented: every property below is a property of the          *)
(* library's formulas in exact arithmetic.                                 *)
(***************************************************************************)
EXTENDS Integers, Sequences, FiniteSets, TLC

VARIABLES
    heap,   \* the instances allocated so far: heap[r] = [cls, values]
    call    \* the last client call: [op, this, args, ret]

vars == <<heap, call>>

---------------------------------------------------------------------------
(* Numbers *)

Abs(i) == IF i < 0 THEN -i ELSE i

Sgn(i) == IF i < 0 THEN -1 ELSE IF i > 0 THEN 1 ELSE 0

RECURSIVE GCD(_, _)
GCD(a, b) == IF b = 0 THEN a ELSE GCD(b, a % b)

\* the fraction n / d in lowest terms; d = 0 gives Infinity, -Infinity or NaN
Rat(n, d) ==
    IF d = 0 THEN <<Sgn(n), 0>>
    ELSE LET g == GCD(Abs(n), Abs(d))
             s == IF d < 0 THEN -1 ELSE 1
         IN  <<(s * n) \div g, (s * d) \div g>>

Num(n) == <<n, 1>>

Zero == <<0, 1>>

One == <<1, 1>>

Two == <<2, 1>>

Half == <<1, 2>>

NaN == <<0, 0>>

IsNaN(a) == a = NaN

IsInf(a) == a[2] = 0 /\ a[1] # 0

IsFinite(a) == a[2] # 0

\* a + b
Add(a, b) ==
    IF IsNaN(a) \/ IsNaN(b) THEN NaN
    ELSE IF IsInf(a) /\ IsInf(b) THEN (IF a = b THEN a ELSE NaN)
    ELSE IF IsInf(a) THEN a
    ELSE IF IsInf(b) THEN b
    ELSE Rat(a[1] * b[2] + b[1] * a[2], a[2] * b[2])

\* -a
Neg(a) == <<-a[1], a[2]>>

\* a - b
Sub(a, b) == Add(a, Neg(b))

\* a * b
Mul(a, b) ==
    IF IsNaN(a) \/ IsNaN(b) THEN NaN
    ELSE IF IsInf(a) \/ IsInf(b)
         THEN (IF a[1] = 0 \/ b[1] = 0 THEN NaN ELSE <<Sgn(a[1]) * Sgn(b[1]), 0>>)
    ELSE Rat(a[1] * b[1], a[2] * b[2])

\* a / b
Div(a, b) ==
    IF IsNaN(a) \/ IsNaN(b) THEN NaN
    ELSE IF IsInf(a) /\ IsInf(b) THEN NaN
    ELSE IF IsInf(a) THEN <<a[1] * (IF b[1] < 0 THEN -1 ELSE 1), 0>>
    ELSE IF IsInf(b) THEN Zero
    ELSE Rat(a[1] * b[2], a[2] * b[1])

\* a < b, false when either is NaN
Less(a, b) ==
    /\ ~IsNaN(a)
    /\ ~IsNaN(b)
    /\ a # b
    /\ IF IsInf(a) THEN a[1] < 0
       ELSE IF IsInf(b) THEN b[1] > 0
       ELSE a[1] * b[2] < b[1] * a[2]

\* a === 0
IsZero(a) == a = Zero

---------------------------------------------------------------------------
(* The heap *)

\* new cls(...): a fresh instance owning a fresh Float32Array
New(h, cls, vals) ==
    [heap |-> Append(h, [cls |-> cls, values |-> vals]), ret |-> Len(h) + 1]


\* Math.sqrt on the numbers whose root is a fraction (the model's inputs are
\* chosen so that no other number reaches it)
Sqrt(a) ==
    IF IsNaN(a) \/ a[1] < 0 THEN NaN
    ELSE IF IsInf(a) THEN a
    ELSE <<CHOOSE r \in 0..a[1] : r * r = a[1], CHOOSE r \in 1..a[2] : r * r = a[2]>>

IsSquare(a) ==
    /\ IsFinite(a)
    /\ a[1] >= 0
    /\ \E r \in 0..a[1] : r * r = a[1]
    /\ \E r \in 1..a[2] : r * r = a[2]

---------------------------------------------------------------------------
(* Float32Vector2, Float32Vector3, Float32Vector4 *)

\* VectorBase.magnitude: the square root of the sum of the squares
RECURSIVE SumSq(_)
SumSq(vals) ==
    IF vals = <<>> THEN Zero
    ELSE Add(SumSq(SubSeq(vals, 1, Len(vals) - 1)), Mul(vals[Len(vals)], vals[Len(vals)]))

VectorBase_magnitude(h, this) == [heap |-> h, ret |-> Sqrt(SumSq(h[this].values))]

Float32Vector2(h, x, y) == New(h, "Float32Vector2", <<x, y>>)

Float32Vector3(h, x, y, z) == New(h, "Float32Vector3", <<x, y, z>>)

Float32Vector4(h, x, y, z, w) == New(h, "Float32Vector4", <<x, y, z, w>>)

\* the component getters
X(h, r) == h[r].values[1]

Y(h, r) == h[r].values[2]

Z(h, r) == h[r].values[3]

W(h, r) == h[r].values[4]

Float32Vector2_add(h, this, other) ==
    Float32Vector2(h, Add(X(h, this), X(h, other)), Add(Y(h, this), Y(h, other)))

Float32Vector2_sub(h, this, other) ==
    Float32Vector2(h, Sub(X(h, this), X(h, other)), Sub(Y(h, this), Y(h, other)))

Float32Vector2_mulByScalar(h, this, scalar) ==
    Float32Vector2(h, Mul(X(h, this), scalar), Mul(Y(h, this), scalar))

\* a variant that adds into the receiver's own array and returns the receiver
Float32Vector3_add_inPlace(h, this, other) ==
    [heap |-> [h EXCEPT ![this].values = <<Add(X(h, this), X(h, other)),
                                            Add(Y(h, this), Y(h, other)),
                                            Add(Z(h, this), Z(h, other))>>],
     ret |-> this]

Float32Vector3_add(h, this, other) ==
    Float32Vector3(h, Add(X(h, this), X(h, other)), Add(Y(h, this), Y(h, other)),
                   Add(Z(h, this), Z(h, other)))

Float32Vector3_sub(h, this, other) ==
    Float32Vector3(h, Sub(X(h, this), X(h, other)), Sub(Y(h, this), Y(h, other)),
                   Sub(Z(h, this), Z(h, other)))

Float32Vector3_mulByScalar(h, this, scalar) ==
    Float32Vector3(h, Mul(X(h, this), scalar), Mul(Y(h, this), scalar),
                   Mul(Z(h, this), scalar))

Float32Vector3_dot(h, this, other) ==
    [heap |-> h,
     ret |-> Add(Add(Mul(X(h, this), X(h, other)), Mul(Y(h, this), Y(h, other))),
                 Mul(Z(h, this), Z(h, other)))]

\* the left-handed product: other x this
Float32Vector3_cross_leftHanded(h, this, other) ==
    LET cx == Sub(Mul(Z(h, this), Y(h, other)), Mul(Y(h, this), Z(h, other)))
        cy == Sub(Mul(X(h, this), Z(h, other)), Mul(Z(h, this), X(h, other)))
        cz == Sub(Mul(Y(h, this), X(h, other)), Mul(X(h, this), Y(h, other)))
    IN  Float32Vector3(h, cx, cy, cz)

Float32Vector3_cross(h, this, other) ==
    LET cx == Sub(Mul(Y(h, this), Z(h, other)), Mul(Z(h, this), Y(h, other)))
        cy == Sub(Mul(Z(h, this), X(h, other)), Mul(X(h, this), Z(h, other)))
        cz == Sub(Mul(X(h, this), Y(h, other)), Mul(Y(h, this), X(h, other)))
    IN  Float32Vector3(h, cx, cy, cz)

\* normalize dividing by the sum of the squares, the square root left out
Float32Vector3_normalize_noRoot(h, this) ==
    LET mag == SumSq(h[this].values)
    IN  IF IsZero(mag) THEN [heap |-> h, ret |-> this]
        ELSE Float32Vector3(h, Div(X(h, this), mag), Div(Y(h, this), mag),
                            Div(Z(h, this), mag))

Float32Vector3_normalize(h, this) ==
    LET mag == VectorBase_magnitude(h, this).ret
    IN  IF IsZero(mag) THEN [heap |-> h, ret |-> this]
        ELSE Float32Vector3(h, Div(X(h, this), mag), Div(Y(h, this), mag),
                            Div(Z(h, this), mag))

Float32Vector3_xy(h, this) == Float32Vector2(h, X(h, this), Y(h, this))

\* hom2cart with a guard: x and y are returned as they are when z is 0
Float32Vector3_hom2cart_guarded(h, this) ==
    IF IsZero(Z(h, this)) THEN Float32Vector2(h, X(h, this), Y(h, this))
    ELSE Float32Vector2(h, Div(X(h, this), Z(h, this)), Div(Y(h, this), Z(h, this)))

Float32Vector3_hom2cart(h, this) ==
    Float32Vector2(h, Div(X(h, this), Z(h, this)), Div(Y(h, this), Z(h, this)))

Float32Vector4_add(h, this, other) ==
    Float32Vector4(h, Add(X(h, this), X(h, other)), Add(Y(h, this), Y(h, other)),
                   Add(Z(h, this), Z(h, other)), Add(W(h, this), W(h, other)))

Float32Vector4_sub(h, this, other) ==
    Float32Vector4(h, Sub(X(h, this), X(h, other)), Sub(Y(h, this), Y(h, other)),
                   Sub(Z(h, this), Z(h, other)), Sub(W(h, this), W(h, other)))

Float32Vector4_mulByScalar(h, this, scalar) ==
    Float32Vector4(h, Mul(X(h, this), scalar), Mul(Y(h, this), scalar),
                   Mul(Z(h, this), scalar), Mul(W(h, this), scalar))

Float32Vector4_xyz(h, this) == Float32Vector3(h, X(h, this), Y(h, this), Z(h, this))

Float32Vector4_hom2cart(h, this) ==
    Float32Vector3(h, Div(X(h, this), W(h, this)), Div(Y(h, this), W(h, this)),
                   Div(Z(h, this), W(h, this)))

---------------------------------------------------------------------------
(* Matrix3x3 *)

\* the constructor stores its arguments in the order given: column after column
Matrix3x3(h, m11, m21, m31, m12, m22, m32, m13, m23, m33) ==
    New(h, "Matrix3x3", <<m11, m21, m31, m12, m22, m32, m13, m23, m33>>)

Matrix3x3_identity(h) == Matrix3x3(h, One, Zero, Zero, Zero, One, Zero, Zero, Zero, One)

\* translation with tx, ty in the last row instead of the last column
Matrix3x3_translation_lastRow(h, tx, ty) ==
    Matrix3x3(h, One, Zero, tx, Zero, One, ty, Zero, Zero, One)

Matrix3x3_translation(h, tx, ty) ==
    Matrix3x3(h, One, Zero, Zero, Zero, One, Zero, tx, ty, One)

Matrix3x3_scaling(h, sx, sy) ==
    Matrix3x3(h, sx, Zero, Zero, Zero, sy, Zero, Zero, Zero, One)

\* a variant with a sign slip in d234 (d1234 + d124 for d1234 - d124)
Matrix3x3_projectiveTransform_signSlip(h, x1, y1, x2, y2, x3, y3, x4, y4) ==
    LET x2d == Sub(x2, x1)
        y2d == Sub(y2, y1)
        x3d == Sub(x3, x1)
        y3d == Sub(y3, y1)
        x4d == Sub(x4, x1)
        y4d == Sub(y4, y1)
        d123 == Sub(Mul(x2d, y3d), Mul(x3d, y2d))
        d124 == Sub(Mul(x2d, y4d), Mul(x4d, y2d))
        d134 == Sub(Mul(x3d, y4d), Mul(x4d, y3d))
        d1234 == Add(d123, d134)
        d234 == Add(d1234, d124)
        a1 == Mul(d134, x2d)
        b1 == Mul(d123, x4d)
        a2 == Mul(d134, y2d)
        b2 == Mul(d123, y4d)
        a0 == Sub(d134, d234)
        b0 == Sub(d123, d234)
        c0 == d234
    IN  Matrix3x3(h, Add(Mul(x1, a0), a1), Add(Mul(y1, a0), a2), a0,
                  Add(Mul(x1, b0), b1), Add(Mul(y1, b0), b2), b0,
                  Mul(x1, c0), Mul(y1, c0), c0)

\* projectiveTransform that checks the condition of its comment,
\* sgn(d123) == sgn(d124) == sgn(d134) == sgn(d234) != 0, and returns the
\* identity when it fails
Matrix3x3_projectiveTransform_checked(h, x1, y1, x2, y2, x3, y3, x4, y4) ==
    LET x2d == Sub(x2, x1)
        y2d == Sub(y2, y1)
        x3d == Sub(x3, x1)
        y3d == Sub(y3, y1)
        x4d == Sub(x4, x1)
        y4d == Sub(y4, y1)
        d123 == Sub(Mul(x2d, y3d), Mul(x3d, y2d))
        d124 == Sub(Mul(x2d, y4d), Mul(x4d, y2d))
        d134 == Sub(Mul(x3d, y4d), Mul(x4d, y3d))
        d1234 == Add(d123, d134)
        d234 == Sub(d1234, d124)
        a1 == Mul(d134, x2d)
        b1 == Mul(d123, x4d)
        a2 == Mul(d134, y2d)
        b2 == Mul(d123, y4d)
        a0 == Sub(d134, d234)
        b0 == Sub(d123, d234)
        c0 == d234
    IN  IF \/ \A d \in {d123, d124, d134, d234} : Less(Zero, d)
           \/ \A d \in {d123, d124, d134, d234} : Less(d, Zero)
        THEN Matrix3x3(h, Add(Mul(x1, a0), a1), Add(Mul(y1, a0), a2), a0,
                       Add(Mul(x1, b0), b1), Add(Mul(y1, b0), b2), b0,
                       Mul(x1, c0), Mul(y1, c0), c0)
        ELSE Matrix3x3_identity(h)

Matrix3x3_projectiveTransform(h, x1, y1, x2, y2, x3, y3, x4, y4) ==
    LET x2d == Sub(x2, x1)
        y2d == Sub(y2, y1)
        x3d == Sub(x3, x1)
        y3d == Sub(y3, y1)
        x4d == Sub(x4, x1)
        y4d == Sub(y4, y1)
        d123 == Sub(Mul(x2d, y3d), Mul(x3d, y2d))
        d124 == Sub(Mul(x2d, y4d), Mul(x4d, y2d))
        d134 == Sub(Mul(x3d, y4d), Mul(x4d, y3d))
        d1234 == Add(d123, d134)
        d234 == Sub(d1234, d124)
        a1 == Mul(d134, x2d)
        b1 == Mul(d123, x4d)
        a2 == Mul(d134, y2d)
        b2 == Mul(d123, y4d)
        a0 == Sub(d134, d234)
        b0 == Sub(d123, d234)
        c0 == d234
    IN  Matrix3x3(h, Add(Mul(x1, a0), a1), Add(Mul(y1, a0), a2), a0,
                  Add(Mul(x1, b0), b1), Add(Mul(y1, b0), b2), b0,
                  Mul(x1, c0), Mul(y1, c0), c0)

Matrix3x3_projectiveInvTransform(h, x1, y1, x2, y2, x3, y3, x4, y4) ==
    LET x2d == Sub(x2, x1)
        y2d == Sub(y2, y1)
        x3d == Sub(x3, x1)
        y3d == Sub(y3, y1)
        x4d == Sub(x4, x1)
        y4d == Sub(y4, y1)
        d123 == Sub(Mul(x2d, y3d), Mul(x3d, y2d))
        d124 == Sub(Mul(x2d, y4d), Mul(x4d, y2d))
        d134 == Sub(Mul(x3d, y4d), Mul(x4d, y3d))
        d1234 == Add(d123, d134)
        d234 == Sub(d1234, d124)
        d11 == Sub(d123, d124)
        d22 == Sub(d134, d124)
        a1 == Mul(Mul(Neg(d123), d234), y4d)
        b1 == Mul(Mul(d123, d234), x4d)
        a2 == Mul(Mul(d134, d234), y2d)
        b2 == Mul(Mul(Neg(d134), d234), x2d)
        a0 == Add(Mul(Mul(d11, d123), y4d), Mul(Mul(d22, d134), y2d))
        b0 == Add(Mul(Mul(d11, d123), x4d), Mul(Mul(d22, d134), x2d))
        c0 == Mul(Mul(Neg(d123), d124), d134)
    IN  Matrix3x3(h, a1, a2, a0, b1, b2, b0,
                  Sub(Mul(Neg(a1), x1), Mul(b1, y1)),
                  Sub(Mul(Neg(a2), x1), Mul(b2, y1)),
                  Add(Sub(Mul(Neg(a0), x1), Mul(b0, y1)), c0))

\* (m11 * o1) + (m12 * o2) + (m13 * o3)
Sum3(a1, b1, a2, b2, a3, b3) == Add(Add(Mul(a1, b1), Mul(a2, b2)), Mul(a3, b3))

\* a variant that takes the vector as a row: it reads the matrix transposed
Matrix3x3_mulByVector3_rowVector(h, this, other) ==
    LET m == h[this].values
        o == h[other].values
        p1 == Sum3(m[1], o[1], m[2], o[2], m[3], o[3])
        p2 == Sum3(m[4], o[1], m[5], o[2], m[6], o[3])
        p3 == Sum3(m[7], o[1], m[8], o[2], m[9], o[3])
    IN  Float32Vector3(h, p1, p2, p3)

Matrix3x3_mulByVector3(h, this, other) ==
    LET m == h[this].values
        o == h[other].values
        m11 == m[1]  m21 == m[2]  m31 == m[3]
        m12 == m[4]  m22 == m[5]  m32 == m[6]
        m13 == m[7]  m23 == m[8]  m33 == m[9]
        o1 == o[1]  o2 == o[2]  o3 == o[3]
        p1 == Sum3(m11, o1, m12, o2, m13, o3)
        p2 == Sum3(m21, o1, m22, o2, m23, o3)
        p3 == Sum3(m31, o1, m32, o2, m33, o3)
    IN  Float32Vector3(h, p1, p2, p3)

Matrix3x3_mulByMatrix3x3(h, this, other) ==
    LET m == h[this].values
        o == h[other].values
        m11 == m[1]  m21 == m[2]  m31 == m[3]
        m12 == m[4]  m22 == m[5]  m32 == m[6]
        m13 == m[7]  m23 == m[8]  m33 == m[9]
        o11 == o[1]  o21 == o[2]  o31 == o[3]
        o12 == o[4]  o22 == o[5]  o32 == o[6]
        o13 == o[7]  o23 == o[8]  o33 == o[9]
        p11 == Sum3(m11, o11, m12, o21, m13, o31)
        p21 == Sum3(m21, o11, m22, o21, m23, o31)
        p31 == Sum3(m31, o11, m32, o21, m33, o31)
        p12 == Sum3(m11, o12, m12, o22, m13, o32)
        p22 == Sum3(m21, o12, m22, o22, m23, o32)
        p32 == Sum3(m31, o12, m32, o22, m33, o32)
        p13 == Sum3(m11, o13, m12, o23, m13, o33)
        p23 == Sum3(m21, o13, m22, o23, m23, o33)
        p33 == Sum3(m31, o13, m32, o23, m33, o33)
    IN  Matrix3x3(h, p11, p21, p31, p12, p22, p32, p13, p23, p33)

Matrix3x3_translate(h, this, tx, ty) ==
    LET t == Matrix3x3_translation(h, tx, ty)
    IN  Matrix3x3_mulByMatrix3x3(t.heap, this, t.ret)

Matrix3x3_scale(h, this, sx, sy) ==
    LET s == Matrix3x3_scaling(h, sx, sy)
    IN  Matrix3x3_mulByMatrix3x3(s.heap, this, s.ret)


---------------------------------------------------------------------------
(* Math.sin, Math.cos, Math.tan, Math.acos                                 *)
(*                                                                         *)
(* An angle is a pair <<k, m>> of numbers standing for k * (pi / 2) +      *)
(* m * atan(3 / 4) radians.  The sine and the cosine of such an angle are  *)
(* fractions when k and m are integers: the model's angles are chosen so   *)
(* that no other angle reaches Math.sin or Math.cos.                       *)

\* (c + s i) turned by a quarter turn k times
RECURSIVE QuarterTurns(_, _)
QuarterTurns(cs, k) ==
    IF k % 4 = 0 THEN cs ELSE QuarterTurns(<<Neg(cs[2]), cs[1]>>, (k % 4) - 1)

\* (c + s i) turned by atan(3 / 4), m times (backwards for m < 0)
RECURSIVE PythagoreanTurns(_, _)
PythagoreanTurns(cs, m) ==
    IF m = 0 THEN cs
    ELSE IF m > 0
         THEN PythagoreanTurns(<<Sub(Mul(cs[1], Rat(4, 5)), Mul(cs[2], Rat(3, 5))),
                                 Add(Mul(cs[1], Rat(3, 5)), Mul(cs[2], Rat(4, 5)))>>, m - 1)
         ELSE PythagoreanTurns(<<Add(Mul(cs[1], Rat(4, 5)), Mul(cs[2], Rat(3, 5))),
                                 Sub(Mul(cs[2], Rat(4, 5)), Mul(cs[1], Rat(3, 5)))>>, m + 1)

\* the angles whose sine and cosine the model knows
IsLatticeAngle(a) == a[1][2] = 1 /\ a[2][2] = 1

\* <<cos a, sin a>>
CosSin(a) ==
    IF IsNaN(a[1]) \/ IsNaN(a[2]) THEN <<NaN, NaN>>
    ELSE IF IsLatticeAngle(a)
    THEN PythagoreanTurns(QuarterTurns(<<One, Zero>>, a[1][1]), a[2][1])
    ELSE CHOOSE cs \in {} : TRUE

MathSin(a) == CosSin(a)[2]

MathCos(a) == CosSin(a)[1]

\* Math.tan, for the angles whose cosine is not 0
MathTan(a) == Div(MathSin(a), MathCos(a))

\* t * a, for a number t and an angle a
ScaleAngle(t, a) == <<Mul(t, a[1]), Mul(t, a[2])>>

\* the angles a of [0, pi] among k * (pi / 2) + m * atan(3 / 4), with k in 0..2
\* and m in -2..2, as pairs <<cos a, a>>
AcosTable ==
    {<<<<1, 1>>, <<Zero, Zero>>>>, <<<<24, 25>>, <<One, Num(-2)>>>>,
     <<<<4, 5>>, <<Zero, One>>>>, <<<<3, 5>>, <<One, Num(-1)>>>>,
     <<<<7, 25>>, <<Zero, Two>>>>, <<<<0, 1>>, <<One, Zero>>>>,
     <<<<-7, 25>>, <<Two, Num(-2)>>>>, <<<<-3, 5>>, <<One, One>>>>,
     <<<<-4, 5>>, <<Two, Num(-1)>>>>, <<<<-24, 25>>, <<One, Two>>>>,
     <<<<-1, 1>>, <<Two, Zero>>>>}

\* Math.acos: the angle of [0, pi] with the given cosine, NaN outside [-1, 1]
MathAcos(x) ==
    IF IsNaN(x) \/ Less(One, x) \/ Less(x, Neg(One)) THEN <<NaN, NaN>>
    ELSE (CHOOSE p \in AcosTable : p[1] = x)[2]

---------------------------------------------------------------------------
(* Quaternion *)

Quaternion(h, x, y, z, w) == New(h, "Quaternion", <<x, y, z, w>>)

Quaternion_rotationAround(h, normalizedAxis, radian) ==
    LET sin == MathSin(ScaleAngle(Half, radian))
        cos == MathCos(ScaleAngle(Half, radian))
    IN  Quaternion(h, Mul(X(h, normalizedAxis), sin), Mul(Y(h, normalizedAxis), sin),
                   Mul(Z(h, normalizedAxis), sin), cos)

\* Math.sqrt(this.x * this.x + this.y * this.y + this.z * this.z + this.w * this.w)
Quaternion_magnitude(h, this) ==
    [heap |-> h,
     ret |-> Sqrt(Add(Add(Add(Mul(X(h, this), X(h, this)), Mul(Y(h, this), Y(h, this))),
                          Mul(Z(h, this), Z(h, this))), Mul(W(h, this), W(h, this))))]

\* a variant without the guard: it divides by the magnitude whatever it is
Quaternion_normalize_noGuard(h, this) ==
    LET mag == Quaternion_magnitude(h, this).ret
        r == Div(One, mag)
    IN  Quaternion(h, Mul(X(h, this), r), Mul(Y(h, this), r), Mul(Z(h, this), r),
                   Mul(W(h, this), r))

Quaternion_normalize(h, this) ==
    LET mag == Quaternion_magnitude(h, this).ret
        r == Div(One, mag)
    IN  IF IsZero(mag) THEN [heap |-> h, ret |-> this]
        ELSE Quaternion(h, Mul(X(h, this), r), Mul(Y(h, this), r), Mul(Z(h, this), r),
                        Mul(W(h, this), r))

Quaternion_add(h, this, other) ==
    Quaternion(h, Add(X(h, this), X(h, other)), Add(Y(h, this), Y(h, other)),
               Add(Z(h, this), Z(h, other)), Add(W(h, this), W(h, other)))

Quaternion_mulByScalar(h, this, scalar) ==
    Quaternion(h, Mul(X(h, this), scalar), Mul(Y(h, this), scalar),
               Mul(Z(h, this), scalar), Mul(W(h, this), scalar))

Quaternion_dot(h, this, other) ==
    [heap |-> h,
     ret |-> Add(Add(Add(Mul(X(h, this), X(h, other)), Mul(Y(h, this), Y(h, other))),
                     Mul(Z(h, this), Z(h, other))), Mul(W(h, this), W(h, other)))]

\* The argument `options` of slerp is the sequence of the values the caller
\* gave for chooseShorterAngle: <<>> when the argument is left out, and then
\* the default { chooseShorterAngle: true } applies.
SlerpDefaultOptions == <<TRUE>>

SlerpOptions(options) == IF options = <<>> THEN SlerpDefaultOptions ELSE options

\* slerp as it would be if the option were consulted: the negation of `other`
\* happens only when chooseShorterAngle is true
Quaternion_slerp_honoursOption(h, this, other, t, options) ==
    LET dot == Quaternion_dot(h, this, other).ret
        negative == Less(dot, Zero) /\ SlerpOptions(options)[1]
        dotProd == IF negative THEN Neg(dot) ELSE dot
        otherQuaternion == IF negative THEN Quaternion_mulByScalar(h, other, Num(-1))
                           ELSE [heap |-> h, ret |-> other]
        omega == MathAcos(dotProd)
        sinOmega == MathSin(omega)
        q1 == Quaternion_mulByScalar(otherQuaternion.heap, this,
                                     Div(MathSin(ScaleAngle(Sub(One, t), omega)), sinOmega))
        q2 == Quaternion_mulByScalar(q1.heap, otherQuaternion.ret,
                                     Div(MathSin(ScaleAngle(t, omega)), sinOmega))
    IN  Quaternion_add(q2.heap, q1.ret, q2.ret)

\* the local `dotProd` of slerp as it is when it is passed to Math.acos
Quaternion_slerp_dotProd(h, this, other) ==
    LET dot == Quaternion_dot(h, this, other).ret
    IN  IF Less(dot, Zero) THEN Neg(dot) ELSE dot

\* slerp with the slip of negating the dot product and leaving `other` as it is
Quaternion_slerp_keepsOther(h, this, other, t, options) ==
    LET dotProd == Quaternion_slerp_dotProd(h, this, other)
        omega == MathAcos(dotProd)
        sinOmega == MathSin(omega)
        q1 == Quaternion_mulByScalar(h, this,
                                     Div(MathSin(ScaleAngle(Sub(One, t), omega)), sinOmega))
        q2 == Quaternion_mulByScalar(q1.heap, other,
                                     Div(MathSin(ScaleAngle(t, omega)), sinOmega))
    IN  Quaternion_add(q2.heap, q1.ret, q2.ret)

\* slerp with the weights of the receiver and of `other` exchanged
Quaternion_slerp_swappedWeights(h, this, other, t, options) ==
    LET negative == Less(Quaternion_dot(h, this, other).ret, Zero)
        dotProd == Quaternion_slerp_dotProd(h, this, other)
        otherQuaternion == IF negative THEN Quaternion_mulByScalar(h, other, Num(-1))
                           ELSE [heap |-> h, ret |-> other]
        omega == MathAcos(dotProd)
        sinOmega == MathSin(omega)
        q1 == Quaternion_mulByScalar(otherQuaternion.heap, this,
                                     Div(MathSin(ScaleAngle(t, omega)), sinOmega))
        q2 == Quaternion_mulByScalar(q1.heap, otherQuaternion.ret,
                                     Div(MathSin(ScaleAngle(Sub(One, t), omega)), sinOmega))
    IN  Quaternion_add(q2.heap, q1.ret, q2.ret)

\* slerp with a guard: the receiver is returned when sin(omega) is 0
Quaternion_slerp_guarded(h, this, other, t, options) ==
    LET negative == Less(Quaternion_dot(h, this, other).ret, Zero)
        dotProd == Quaternion_slerp_dotProd(h, this, other)
        otherQuaternion == IF negative THEN Quaternion_mulByScalar(h, other, Num(-1))
                           ELSE [heap |-> h, ret |-> other]
        omega == MathAcos(dotProd)
        sinOmega == MathSin(omega)
        q1 == Quaternion_mulByScalar(otherQuaternion.heap, this,
                                     Div(MathSin(ScaleAngle(Sub(One, t), omega)), sinOmega))
        q2 == Quaternion_mulByScalar(q1.heap, otherQuaternion.ret,
                                     Div(MathSin(ScaleAngle(t, omega)), sinOmega))
    IN  IF IsZero(sinOmega) THEN [heap |-> h, ret |-> this]
        ELSE Quaternion_add(q2.heap, q1.ret, q2.ret)

\* slerp: `options` is bound (to the default when left out) and never read
Quaternion_slerp(h, this, other, t, options) ==
    LET opts == SlerpOptions(options)
        negative == Less(Quaternion_dot(h, this, other).ret, Zero)
        dotProd == Quaternion_slerp_dotProd(h, this, other)
        otherQuaternion == IF negative THEN Quaternion_mulByScalar(h, other, Num(-1))
                           ELSE [heap |-> h, ret |-> other]
        omega == MathAcos(dotProd)
        sinOmega == MathSin(omega)
        q1 == Quaternion_mulByScalar(otherQuaternion.heap, this,
                                     Div(MathSin(ScaleAngle(Sub(One, t), omega)), sinOmega))
        q2 == Quaternion_mulByScalar(q1.heap, otherQuaternion.ret,
                                     Div(MathSin(ScaleAngle(t, omega)), sinOmega))
    IN  Quaternion_add(q2.heap, q1.ret, q2.ret)

---------------------------------------------------------------------------
(* Matrix3x3: the rotation *)

\* get values: the instance's own array, not a copy; nothing is written
Matrix3x3_values(h, this) == [heap |-> h, ret |-> this]

Matrix3x3_rotation(h, radian) ==
    LET sin == MathSin(radian)
        cos == MathCos(radian)
    IN  Matrix3x3(h, cos, sin, Zero, Neg(sin), cos, Zero, Zero, Zero, One)

Matrix3x3_rotate(h, this, radian) ==
    LET r == Matrix3x3_rotation(h, radian)
    IN  Matrix3x3_mulByMatrix3x3(r.heap, this, r.ret)

---------------------------------------------------------------------------
(* Matrix2x2 *)

Matrix2x2(h, m11, m21, m12, m22) == New(h, "Matrix2x2", <<m11, m21, m12, m22>>)

Matrix2x2_identity(h) == Matrix2x2(h, One, Zero, Zero, One)

\* get values: the instance's own array, not a copy; nothing is written
Matrix2x2_values(h, this) == [heap |-> h, ret |-> this]

---------------------------------------------------------------------------
(* Matrix4x4 *)

\* get values: the instance's own array, not a copy; nothing is written
Matrix4x4_values(h, this) == [heap |-> h, ret |-> this]

\* a variant that stores its arguments row after row
Matrix4x4_rowMajor(h, m11, m21, m31, m41, m12, m22, m32, m42, m13, m23, m33, m43, m14, m24, m34, m44) ==
    New(h, "Matrix4x4", <<m11, m12, m13, m14, m21, m22, m23, m24,
                          m31, m32, m33, m34, m41, m42, m43, m44>>)

\* the constructor stores its arguments in the order given: column after column
Matrix4x4(h, m11, m21, m31, m41, m12, m22, m32, m42, m13, m23, m33, m43, m14, m24, m34, m44) ==
    New(h, "Matrix4x4", <<m11, m21, m31, m41, m12, m22, m32, m42,
                          m13, m23, m33, m43, m14, m24, m34, m44>>)

\* a variant whose last diagonal entry is 0
Matrix4x4_identity_noW(h) ==
    New(h, "Matrix4x4", <<One, Zero, Zero, Zero, Zero, One, Zero, Zero,
                          Zero, Zero, One, Zero, Zero, Zero, Zero, Zero>>)

Matrix4x4_identity(h) ==
    Matrix4x4(h, One, Zero, Zero, Zero, Zero, One, Zero, Zero,
              Zero, Zero, One, Zero, Zero, Zero, Zero, One)

Matrix4x4_translation(h, tx, ty, tz) ==
    Matrix4x4(h, One, Zero, Zero, Zero, Zero, One, Zero, Zero,
              Zero, Zero, One, Zero, tx, ty, tz, One)

Matrix4x4_scaling(h, sx, sy, sz) ==
    Matrix4x4(h, sx, Zero, Zero, Zero, Zero, sy, Zero, Zero,
              Zero, Zero, sz, Zero, Zero, Zero, Zero, One)

Matrix4x4_rotationX(h, radian) ==
    LET sin == MathSin(radian)
        cos == MathCos(radian)
    IN  Matrix4x4(h, One, Zero, Zero, Zero, Zero, cos, sin, Zero,
                  Zero, Neg(sin), cos, Zero, Zero, Zero, Zero, One)

\* rotationY with the signs of the sines exchanged: the left-handed rotation
Matrix4x4_rotationY_leftHanded(h, radian) ==
    LET sin == MathSin(radian)
        cos == MathCos(radian)
    IN  Matrix4x4(h, cos, Zero, sin, Zero, Zero, One, Zero, Zero,
                  Neg(sin), Zero, cos, Zero, Zero, Zero, Zero, One)

Matrix4x4_rotationY(h, radian) ==
    LET sin == MathSin(radian)
        cos == MathCos(radian)
    IN  Matrix4x4(h, cos, Zero, Neg(sin), Zero, Zero, One, Zero, Zero,
                  sin, Zero, cos, Zero, Zero, Zero, Zero, One)

Matrix4x4_rotationZ(h, radian) ==
    LET sin == MathSin(radian)
        cos == MathCos(radian)
    IN  Matrix4x4(h, cos, sin, Zero, Zero, Neg(sin), cos, Zero, Zero,
                  Zero, Zero, One, Zero, Zero, Zero, Zero, One)

\* 1 - 2 * a * b - 2 * c * d
OneMinus(a, b, c, d) == Sub(Sub(One, Mul(Mul(Two, a), b)), Mul(Mul(Two, c), d))

\* toRotationMatrix4 as it would be if it normalized the quaternion first
Quaternion_toRotationMatrix4_normalized(h, this) ==
    LET n == SumSq(h[this].values)
        x == Div(X(h, this), Sqrt(n))
        y == Div(Y(h, this), Sqrt(n))
        z == Div(Z(h, this), Sqrt(n))
        w == Div(W(h, this), Sqrt(n))
    IN  Matrix4x4(h, OneMinus(y, y, z, z), Add(Mul(Mul(Two, x), y), Mul(Mul(Two, w), z)),
                  Sub(Mul(Mul(Two, x), z), Mul(Mul(Two, w), y)), Zero,
                  Sub(Mul(Mul(Two, x), y), Mul(Mul(Two, w), z)), OneMinus(x, x, z, z),
                  Add(Mul(Mul(Two, y), z), Mul(Mul(Two, w), x)), Zero,
                  Add(Mul(Mul(Two, x), z), Mul(Mul(Two, w), y)),
                  Sub(Mul(Mul(Two, y), z), Mul(Mul(Two, w), x)), OneMinus(x, x, y, y), Zero,
                  Zero, Zero, Zero, One)

\* toRotationMatrix4 with the rows handed to the constructor as columns
Quaternion_toRotationMatrix4_transposed(h, this) ==
    LET v == h[this].values
        x == v[1]
        y == v[2]
        z == v[3]
        w == v[4]
    IN  Matrix4x4(h, OneMinus(y, y, z, z), Sub(Mul(Mul(Two, x), y), Mul(Mul(Two, w), z)),
                  Add(Mul(Mul(Two, x), z), Mul(Mul(Two, w), y)), Zero,
                  Add(Mul(Mul(Two, x), y), Mul(Mul(Two, w), z)), OneMinus(x, x, z, z),
                  Sub(Mul(Mul(Two, y), z), Mul(Mul(Two, w), x)), Zero,
                  Sub(Mul(Mul(Two, x), z), Mul(Mul(Two, w), y)),
                  Add(Mul(Mul(Two, y), z), Mul(Mul(Two, w), x)), OneMinus(x, x, y, y), Zero,
                  Zero, Zero, Zero, One)

Quaternion_toRotationMatrix4(h, this) ==
    LET x == X(h, this)
        y == Y(h, this)
        z == Z(h, this)
        w == W(h, this)
        m11 == OneMinus(y, y, z, z)
        m12 == Sub(Mul(Mul(Two, x), y), Mul(Mul(Two, w), z))
        m13 == Add(Mul(Mul(Two, x), z), Mul(Mul(Two, w), y))
        m14 == Zero
        m21 == Add(Mul(Mul(Two, x), y), Mul(Mul(Two, w), z))
        m22 == OneMinus(x, x, z, z)
        m23 == Sub(Mul(Mul(Two, y), z), Mul(Mul(Two, w), x))
        m24 == Zero
        m31 == Sub(Mul(Mul(Two, x), z), Mul(Mul(Two, w), y))
        m32 == Add(Mul(Mul(Two, y), z), Mul(Mul(Two, w), x))
        m33 == OneMinus(x, x, y, y)
        m34 == Zero
        m41 == Zero
        m42 == Zero
        m43 == Zero
        m44 == One
    IN  Matrix4x4(h, m11, m21, m31, m41, m12, m22, m32, m42,
                  m13, m23, m33, m43, m14, m24, m34, m44)

\* rotationAround that normalizes the axis it is given
Matrix4x4_rotationAround_renormalized(h, normalizedAxis, radian) ==
    LET n == Float32Vector3_normalize(h, normalizedAxis)
        q == Quaternion_rotationAround(n.heap, n.ret, radian)
    IN  Quaternion_toRotationMatrix4(q.heap, q.ret)

Matrix4x4_rotationAround(h, normalizedAxis, radian) ==
    LET q == Quaternion_rotationAround(h, normalizedAxis, radian)
    IN  Quaternion_toRotationMatrix4(q.heap, q.ret)

\* (m11 * o1) + (m12 * o2) + (m13 * o3) + (m14 * o4)
Sum4(a1, b1, a2, b2, a3, b3, a4, b4) ==
    Add(Add(Add(Mul(a1, b1), Mul(a2, b2)), Mul(a3, b3)), Mul(a4, b4))

Matrix4x4_mulByVector4(h, this, other) ==
    LET m == h[this].values
        o == h[other].values
        m11 == m[1]  m21 == m[2]  m31 == m[3]  m41 == m[4]
        m12 == m[5]  m22 == m[6]  m32 == m[7]  m42 == m[8]
        m13 == m[9]  m23 == m[10]  m33 == m[11]  m43 == m[12]
        m14 == m[13]  m24 == m[14]  m34 == m[15]  m44 == m[16]
        o1 == o[1]  o2 == o[2]  o3 == o[3]  o4 == o[4]
        p1 == Sum4(m11, o1, m12, o2, m13, o3, m14, o4)
        p2 == Sum4(m21, o1, m22, o2, m23, o3, m24, o4)
        p3 == Sum4(m31, o1, m32, o2, m33, o3, m34, o4)
        p4 == Sum4(m41, o1, m42, o2, m43, o3, m44, o4)
    IN  Float32Vector4(h, p1, p2, p3, p4)

\* a variant with a slip in one entry: p32 reads m31 where it must read m32
Matrix4x4_mulByMatrix4x4_slip(h, this, other) ==
    LET m == h[this].values
        o == h[other].values
        m11 == m[1]  m21 == m[2]  m31 == m[3]  m41 == m[4]
        m12 == m[5]  m22 == m[6]  m32 == m[7]  m42 == m[8]
        m13 == m[9]  m23 == m[10]  m33 == m[11]  m43 == m[12]
        m14 == m[13]  m24 == m[14]  m34 == m[15]  m44 == m[16]
        o11 == o[1]  o21 == o[2]  o31 == o[3]  o41 == o[4]
        o12 == o[5]  o22 == o[6]  o32 == o[7]  o42 == o[8]
        o13 == o[9]  o23 == o[10]  o33 == o[11]  o43 == o[12]
        o14 == o[13]  o24 == o[14]  o34 == o[15]  o44 == o[16]
        p11 == Sum4(m11, o11, m12, o21, m13, o31, m14, o41)
        p21 == Sum4(m21, o11, m22, o21, m23, o31, m24, o41)
        p31 == Sum4(m31, o11, m32, o21, m33, o31, m34, o41)
        p41 == Sum4(m41, o11, m42, o21, m43, o31, m44, o41)
        p12 == Sum4(m11, o12, m12, o22, m13, o32, m14, o42)
        p22 == Sum4(m21, o12, m22, o22, m23, o32, m24, o42)
        p32 == Sum4(m31, o12, m31, o22, m33, o32, m34, o42)
        p42 == Sum4(m41, o12, m42, o22, m43, o32, m44, o42)
        p13 == Sum4(m11, o13, m12, o23, m13, o33, m14, o43)
        p23 == Sum4(m21, o13, m22, o23, m23, o33, m24, o43)
        p33 == Sum4(m31, o13, m32, o23, m33, o33, m34, o43)
        p43 == Sum4(m41, o13, m42, o23, m43, o33, m44, o43)
        p14 == Sum4(m11, o14, m12, o24, m13, o34, m14, o44)
        p24 == Sum4(m21, o14, m22, o24, m23, o34, m24, o44)
        p34 == Sum4(m31, o14, m32, o24, m33, o34, m34, o44)
        p44 == Sum4(m41, o14, m42, o24, m43, o34, m44, o44)
    IN  Matrix4x4(h, p11, p21, p31, p41, p12, p22, p32, p42,
                  p13, p23, p33, p43, p14, p24, p34, p44)

Matrix4x4_mulByMatrix4x4(h, this, other) ==
    LET m == h[this].values
        o == h[other].values
        m11 == m[1]  m21 == m[2]  m31 == m[3]  m41 == m[4]
        m12 == m[5]  m22 == m[6]  m32 == m[7]  m42 == m[8]
        m13 == m[9]  m23 == m[10]  m33 == m[11]  m43 == m[12]
        m14 == m[13]  m24 == m[14]  m34 == m[15]  m44 == m[16]
        o11 == o[1]  o21 == o[2]  o31 == o[3]  o41 == o[4]
        o12 == o[5]  o22 == o[6]  o32 == o[7]  o42 == o[8]
        o13 == o[9]  o23 == o[10]  o33 == o[11]  o43 == o[12]
        o14 == o[13]  o24 == o[14]  o34 == o[15]  o44 == o[16]
        p11 == Sum4(m11, o11, m12, o21, m13, o31, m14, o41)
        p21 == Sum4(m21, o11, m22, o21, m23, o31, m24, o41)
        p31 == Sum4(m31, o11, m32, o21, m33, o31, m34, o41)
        p41 == Sum4(m41, o11, m42, o21, m43, o31, m44, o41)
        p12 == Sum4(m11, o12, m12, o22, m13, o32, m14, o42)
        p22 == Sum4(m21, o12, m22, o22, m23, o32, m24, o42)
        p32 == Sum4(m31, o12, m32, o22, m33, o32, m34, o42)
        p42 == Sum4(m41, o12, m42, o22, m43, o32, m44, o42)
        p13 == Sum4(m11, o13, m12, o23, m13, o33, m14, o43)
        p23 == Sum4(m21, o13, m22, o23, m23, o33, m24, o43)
        p33 == Sum4(m31, o13, m32, o23, m33, o33, m34, o43)
        p43 == Sum4(m41, o13, m42, o23, m43, o33, m44, o43)
        p14 == Sum4(m11, o14, m12, o24, m13, o34, m14, o44)
        p24 == Sum4(m21, o14, m22, o24, m23, o34, m24, o44)
        p34 == Sum4(m31, o14, m32, o24, m33, o34, m34, o44)
        p44 == Sum4(m41, o14, m42, o24, m43, o34, m44, o44)
    IN  Matrix4x4(h, p11, p21, p31, p41, p12, p22, p32, p42,
                  p13, p23, p33, p43, p14, p24, p34, p44)

\* a variant that multiplies from the left: the receiver is the right factor
Matrix4x4_translate_left(h, this, tx, ty, tz) ==
    LET t == Matrix4x4_translation(h, tx, ty, tz)
    IN  Matrix4x4_mulByMatrix4x4(t.heap, t.ret, this)

\* a variant that stores the product into the receiver and returns the receiver
Matrix4x4_translate_inPlace(h, this, tx, ty, tz) ==
    LET t == Matrix4x4_translation(h, tx, ty, tz)
        p == Matrix4x4_mulByMatrix4x4(t.heap, this, t.ret)
    IN  [heap |-> [t.heap EXCEPT ![this].values = p.heap[p.ret].values], ret |-> this]

Matrix4x4_translate(h, this, tx, ty, tz) ==
    LET t == Matrix4x4_translation(h, tx, ty, tz)
    IN  Matrix4x4_mulByMatrix4x4(t.heap, this, t.ret)

\* scale that multiplies the scaling by the receiver
Matrix4x4_scale_left(h, this, sx, sy, sz) ==
    LET s == Matrix4x4_scaling(h, sx, sy, sz)
    IN  Matrix4x4_mulByMatrix4x4(s.heap, s.ret, this)

Matrix4x4_scale(h, this, sx, sy, sz) ==
    LET s == Matrix4x4_scaling(h, sx, sy, sz)
    IN  Matrix4x4_mulByMatrix4x4(s.heap, this, s.ret)

Matrix4x4_rotateX(h, this, radian) ==
    LET rx == Matrix4x4_rotationX(h, radian)
    IN  Matrix4x4_mulByMatrix4x4(rx.heap, this, rx.ret)

Matrix4x4_rotateY(h, this, radian) ==
    LET ry == Matrix4x4_rotationY(h, radian)
    IN  Matrix4x4_mulByMatrix4x4(ry.heap, this, ry.ret)

Matrix4x4_rotateZ(h, this, radian) ==
    LET rz == Matrix4x4_rotationZ(h, radian)
    IN  Matrix4x4_mulByMatrix4x4(rz.heap, this, rz.ret)

Matrix4x4_rotateAround(h, this, normalizedAxis, radian) ==
    LET r == Matrix4x4_rotationAround(h, normalizedAxis, radian)
    IN  Matrix4x4_mulByMatrix4x4(r.heap, this, r.ret)

---------------------------------------------------------------------------
(* Matrix4x4: the camera and the projections *)

\* lookAt with the axes stored as the columns of the rotation part
Matrix4x4_lookAt_columns(h, cameraPosition, lookAtPosition, cameraUp) ==
    LET d == Float32Vector3_sub(h, cameraPosition, lookAtPosition)
        zAxis == Float32Vector3_normalize(d.heap, d.ret)
        c == Float32Vector3_cross(zAxis.heap, cameraUp, zAxis.ret)
        xAxis == Float32Vector3_normalize(c.heap, c.ret)
        e == Float32Vector3_cross(xAxis.heap, zAxis.ret, xAxis.ret)
        yAxis == Float32Vector3_normalize(e.heap, e.ret)
        g == yAxis.heap
    IN  Matrix4x4(g, X(g, xAxis.ret), Y(g, xAxis.ret), Z(g, xAxis.ret), Zero,
                  X(g, yAxis.ret), Y(g, yAxis.ret), Z(g, yAxis.ret), Zero,
                  X(g, zAxis.ret), Y(g, zAxis.ret), Z(g, zAxis.ret), Zero,
                  Neg(Float32Vector3_dot(g, cameraPosition, xAxis.ret).ret),
                  Neg(Float32Vector3_dot(g, cameraPosition, yAxis.ret).ret),
                  Neg(Float32Vector3_dot(g, cameraPosition, zAxis.ret).ret), One)

\* lookAt that moves the point looked at, not the camera, to the origin
Matrix4x4_lookAt_targetOrigin(h, cameraPosition, lookAtPosition, cameraUp) ==
    LET d == Float32Vector3_sub(h, cameraPosition, lookAtPosition)
        zAxis == Float32Vector3_normalize(d.heap, d.ret)
        c == Float32Vector3_cross(zAxis.heap, cameraUp, zAxis.ret)
        xAxis == Float32Vector3_normalize(c.heap, c.ret)
        e == Float32Vector3_cross(xAxis.heap, zAxis.ret, xAxis.ret)
        yAxis == Float32Vector3_normalize(e.heap, e.ret)
        g == yAxis.heap
    IN  Matrix4x4(g, X(g, xAxis.ret), X(g, yAxis.ret), X(g, zAxis.ret), Zero,
                  Y(g, xAxis.ret), Y(g, yAxis.ret), Y(g, zAxis.ret), Zero,
                  Z(g, xAxis.ret), Z(g, yAxis.ret), Z(g, zAxis.ret), Zero,
                  Neg(Float32Vector3_dot(g, lookAtPosition, xAxis.ret).ret),
                  Neg(Float32Vector3_dot(g, lookAtPosition, yAxis.ret).ret),
                  Neg(Float32Vector3_dot(g, lookAtPosition, zAxis.ret).ret), One)

Matrix4x4_lookAt(h, cameraPosition, lookAtPosition, cameraUp) ==
    LET d == Float32Vector3_sub(h, cameraPosition, lookAtPosition)
        zAxis == Float32Vector3_normalize(d.heap, d.ret)
        c == Float32Vector3_cross(zAxis.heap, cameraUp, zAxis.ret)
        xAxis == Float32Vector3_normalize(c.heap, c.ret)
        e == Float32Vector3_cross(xAxis.heap, zAxis.ret, xAxis.ret)
        yAxis == Float32Vector3_normalize(e.heap, e.ret)
        g == yAxis.heap
    IN  Matrix4x4(g, X(g, xAxis.ret), X(g, yAxis.ret), X(g, zAxis.ret), Zero,
                  Y(g, xAxis.ret), Y(g, yAxis.ret), Y(g, zAxis.ret), Zero,
                  Z(g, xAxis.ret), Z(g, yAxis.ret), Z(g, zAxis.ret), Zero,
                  Neg(Float32Vector3_dot(g, cameraPosition, xAxis.ret).ret),
                  Neg(Float32Vector3_dot(g, cameraPosition, yAxis.ret).ret),
                  Neg(Float32Vector3_dot(g, cameraPosition, zAxis.ret).ret), One)

\* argsObject is a record with the fields top, bottom, left, right, near, far
Matrix4x4_orthographic(h, argsObject) ==
    LET top == argsObject.top
        bottom == argsObject.bottom
        left == argsObject.left
        right == argsObject.right
        near == argsObject.near
        far == argsObject.far
    IN  Matrix4x4(h, Div(Two, Sub(right, left)), Zero, Zero, Zero,
                  Zero, Div(Two, Sub(top, bottom)), Zero, Zero,
                  Zero, Zero, Div(Num(-2), Sub(far, near)), Zero,
                  Div(Neg(Add(right, left)), Sub(right, left)),
                  Div(Neg(Add(top, bottom)), Sub(top, bottom)),
                  Div(Neg(Add(far, near)), Sub(far, near)), One)

\* frustum with the sign of the depth scale lost
Matrix4x4_frustum_depthSign(h, argsObject) ==
    LET top == argsObject.top
        bottom == argsObject.bottom
        left == argsObject.left
        right == argsObject.right
        near == argsObject.near
        far == argsObject.far
    IN  Matrix4x4(h, Div(Mul(Two, near), Sub(right, left)), Zero, Zero, Zero,
                  Zero, Div(Mul(Two, near), Sub(top, bottom)), Zero, Zero,
                  Div(Add(right, left), Sub(right, left)),
                  Div(Add(top, bottom), Sub(top, bottom)),
                  Div(Add(far, near), Sub(far, near)), Num(-1),
                  Zero, Zero, Div(Mul(Mul(Num(-2), far), near), Sub(far, near)), Zero)

Matrix4x4_frustum(h, argsObject) ==
    LET top == argsObject.top
        bottom == argsObject.bottom
        left == argsObject.left
        right == argsObject.right
        near == argsObject.near
        far == argsObject.far
    IN  Matrix4x4(h, Div(Mul(Two, near), Sub(right, left)), Zero, Zero, Zero,
                  Zero, Div(Mul(Two, near), Sub(top, bottom)), Zero, Zero,
                  Div(Add(right, left), Sub(right, left)),
                  Div(Add(top, bottom), Sub(top, bottom)),
                  Div(Neg(Add(far, near)), Sub(far, near)), Num(-1),
                  Zero, Zero, Div(Mul(Mul(Num(-2), far), near), Sub(far, near)), Zero)

\* perspective taking fovYRadian for the half angle
Matrix4x4_perspective_fullAngle(h, argsObject) ==
    LET top == Mul(argsObject.near, MathTan(argsObject.fovYRadian))
        height == Mul(top, Two)
        width == Mul(argsObject.aspectRatio, height)
        left == Mul(Neg(Half), width)
        right == Add(left, width)
        bottom == Sub(top, height)
    IN  Matrix4x4_frustum(h, [top |-> top, bottom |-> bottom, left |-> left,
                              right |-> right, near |-> argsObject.near,
                              far |-> argsObject.far])

\* argsObject is a record with the fields fovYRadian, aspectRatio, near, far
Matrix4x4_perspective(h, argsObject) ==
    LET top == Mul(argsObject.near, MathTan(ScaleAngle(Half, argsObject.fovYRadian)))
        height == Mul(top, Two)
        width == Mul(argsObject.aspectRatio, height)
        left == Mul(Neg(Half), width)
        right == Add(left, width)
        bottom == Sub(top, height)
    IN  Matrix4x4_frustum(h, [top |-> top, bottom |-> bottom, left |-> left,
                              right |-> right, near |-> argsObject.near,
                              far |-> argsObject.far])

---------------------------------------------------------------------------
(* SpecProj: one client expression over the projective transforms          *)

\* the record of a client call
Called(op, this, args, ret) == [op |-> op, this |-> this, args |-> args, ret |-> ret]

\* no call made yet
NoCall == Called("none", 0, <<>>, 0)

\* the largest coordinate of the first corner of the quadrilateral
MaxOrigin == 1

\* the largest coordinate of its other corners
MaxCoord == 2

\* a quadrilateral <<x1, y1, x2, y2, x3, y3, x4, y4>>
Quads == {q \in [1..8 -> 0..MaxCoord] : q[1] <= MaxOrigin /\ q[2] <= MaxOrigin}

\* the coordinates of the points of the unit square that are mapped
UnitCoords == {Zero, Half, One}

\* Matrix3x3.projectiveTransform(x1, ..., y4), with the client's numbers
CallProjectiveTransform(h, q) ==
    Matrix3x3_projectiveTransform(h, Num(q[1]), Num(q[2]), Num(q[3]), Num(q[4]),
                                  Num(q[5]), Num(q[6]), Num(q[7]), Num(q[8]))

CallProjectiveInvTransform(h, q) ==
    Matrix3x3_projectiveInvTransform(h, Num(q[1]), Num(q[2]), Num(q[3]), Num(q[4]),
                                     Num(q[5]), Num(q[6]), Num(q[7]), Num(q[8]))

\* the client holds the eight coordinates of a quadrilateral
InitProj ==
    /\ heap = <<>>
    /\ \E q \in Quads : call = [NoCall EXCEPT !.args = q]

\* Matrix3x3.projectiveTransform(q).mulByVector3(new Float32Vector3(x, y, 1)).hom2cart
ForwardMap ==
    /\ call.op = "none"
    /\ \E x \in UnitCoords, y \in UnitCoords :
       \E m \in {CallProjectiveTransform(heap, call.args)} :
       \E v \in {Float32Vector3(m.heap, x, y, One)} :
       \E p \in {Matrix3x3_mulByVector3(v.heap, m.ret, v.ret)} :
       \E c \in {Float32Vector3_hom2cart(p.heap, p.ret)} :
          /\ heap' = c.heap
          /\ call' = Called("forward", m.ret, <<call.args, <<x, y>>>>, c.ret)

\* Matrix3x3.projectiveInvTransform(q).mulByVector3(new Float32Vector3(xi, yi, 1)).hom2cart
\* for corner i of the quadrilateral q
InverseMap ==
    /\ call.op = "none"
    /\ \E i \in 1..4 :
       \E n \in {CallProjectiveInvTransform(heap, call.args)} :
       \E v \in {Float32Vector3(n.heap, Num(call.args[2 * i - 1]), Num(call.args[2 * i]), One)} :
       \E p \in {Matrix3x3_mulByVector3(v.heap, n.ret, v.ret)} :
       \E c \in {Float32Vector3_hom2cart(p.heap, p.ret)} :
          /\ heap' = c.heap
          /\ call' = Called("inverse", n.ret, <<call.args, i>>, c.ret)

\* v = new Float32Vector3(x, y, 1);
\* Matrix3x3.projectiveInvTransform(q).mulByVector3(
\*     Matrix3x3.projectiveTransform(q).mulByVector3(v)).hom2cart
RoundTrip ==
    /\ call.op = "none"
    /\ \E x \in UnitCoords, y \in UnitCoords :
       \E v \in {Float32Vector3(heap, x, y, One)} :
       \E n \in {CallProjectiveInvTransform(v.heap, call.args)} :
       \E m \in {CallProjectiveTransform(n.heap, call.args)} :
       \E p \in {Matrix3x3_mulByVector3(m.heap, m.ret, v.ret)} :
       \E b \in {Matrix3x3_mulByVector3(p.heap, n.ret, p.ret)} :
       \E c \in {Float32Vector3_hom2cart(b.heap, b.ret)} :
          /\ heap' = c.heap
          /\ call' = Called("roundTrip", n.ret, <<call.args, <<x, y>>>>, c.ret)

NextProj == ForwardMap \/ InverseMap \/ RoundTrip

SpecProj == InitProj /\ [][NextProj]_vars

---------------------------------------------------------------------------
(* SpecMat: the matrix classes.                                            *)
(* A client builds matrices from sample numbers and calls one operation.   *)

\* number of sample matrices per dimension
MaxSeed == 3

\* quarter turns of the sample angles
MaxTurns == 2

\* the numbers a client passes to a constructor: small fractions, no symmetry
SampleEntry(seed, i) == Rat(((i * i * seed + 2 * i + seed) % 7) - 3, 1 + (seed % 2))

Sample(n, seed) == [i \in 1..(n * n) |-> SampleEntry(seed, i)]

SampleVector(n, seed) == [i \in 1..n |-> SampleEntry(seed + 1, i + 2)]

\* (tx, ty, tz) or (sx, sy, sz)
Triples == {<<Num(2), Num(-1), Num(3)>>, <<Half, Zero, Num(-2)>>, <<Zero, Zero, Zero>>}

Angles == {<<Num(k), Num(m)>> : k \in -1..MaxTurns, m \in -1..1}

\* unit vectors
Axes == {<<One, Zero, Zero>>, <<Zero, Zero, One>>, <<Rat(2, 3), Rat(1, 3), Rat(2, 3)>>,
         <<Zero, Rat(3, 5), Rat(-4, 5)>>}

\* the axes a client hands to rotationAround: the unit vectors, a longer and a
\* shorter vector, and the zero vector
GivenAxes ==
    Axes \cup {<<Zero, Zero, Two>>, <<Zero, Num(3), Num(-4)>>, <<Half, Zero, Zero>>,
               <<Zero, Zero, Zero>>}

\* new Matrix2x2(...v), new Matrix3x3(...v), new Matrix4x4(...v)
NewMatrix2x2(h, v) == Matrix2x2(h, v[1], v[2], v[3], v[4])

NewMatrix3x3(h, v) == Matrix3x3(h, v[1], v[2], v[3], v[4], v[5], v[6], v[7], v[8], v[9])

NewMatrix4x4(h, v) ==
    Matrix4x4(h, v[1], v[2], v[3], v[4], v[5], v[6], v[7], v[8],
              v[9], v[10], v[11], v[12], v[13], v[14], v[15], v[16])

InitMat ==
    /\ heap = <<>>
    /\ \E a \in 1..MaxSeed, b \in 1..MaxSeed : call = [NoCall EXCEPT !.args = <<a, b>>]


Construct2x2 ==
    /\ call.op = "none"
    /\ \E m \in {NewMatrix2x2(heap, Sample(2, call.args[1]))} :
          /\ heap' = m.heap
          /\ call' = Called("Matrix2x2.new", 0, <<Sample(2, call.args[1])>>, m.ret)

Identity2x2 ==
    /\ call.op = "none"
    /\ \E m \in {Matrix2x2_identity(heap)} :
          /\ heap' = m.heap
          /\ call' = Called("Matrix2x2.identity", 0, <<>>, m.ret)

Construct3x3 ==
    /\ call.op = "none"
    /\ \E m \in {NewMatrix3x3(heap, Sample(3, call.args[1]))} :
          /\ heap' = m.heap
          /\ call' = Called("Matrix3x3.new", 0, <<Sample(3, call.args[1])>>, m.ret)

Identity3x3 ==
    /\ call.op = "none"
    /\ \E m \in {Matrix3x3_identity(heap)} :
          /\ heap' = m.heap
          /\ call' = Called("Matrix3x3.identity", 0, <<>>, m.ret)

Translation3x3 ==
    /\ call.op = "none"
    /\ \E t \in Triples :
       \E m \in {Matrix3x3_translation(heap, t[1], t[2])} :
          /\ heap' = m.heap
          /\ call' = Called("Matrix3x3.translation", 0, <<t>>, m.ret)

Scaling3x3 ==
    /\ call.op = "none"
    /\ \E t \in Triples :
       \E m \in {Matrix3x3_scaling(heap, t[1], t[2])} :
          /\ heap' = m.heap
          /\ call' = Called("Matrix3x3.scaling", 0, <<t>>, m.ret)

Rotation3x3 ==
    /\ call.op = "none"
    /\ \E r \in Angles :
       \E m \in {Matrix3x3_rotation(heap, r)} :
          /\ heap' = m.heap
          /\ call' = Called("Matrix3x3.rotation", 0, <<r>>, m.ret)

MulByVector3 ==
    /\ call.op = "none"
    /\ \E a \in {NewMatrix3x3(heap, Sample(3, call.args[1]))} :
       \E v \in {New(a.heap, "Float32Vector3", SampleVector(3, call.args[2]))} :
       \E p \in {Matrix3x3_mulByVector3(v.heap, a.ret, v.ret)} :
          /\ heap' = p.heap
          /\ call' = Called("Matrix3x3.mulByVector3", a.ret, <<v.ret>>, p.ret)

MulByMatrix3x3 ==
    /\ call.op = "none"
    /\ \E a \in {NewMatrix3x3(heap, Sample(3, call.args[1]))} :
       \E b \in {NewMatrix3x3(a.heap, Sample(3, call.args[2]))} :
       \E p \in {Matrix3x3_mulByMatrix3x3(b.heap, a.ret, b.ret)} :
          /\ heap' = p.heap
          /\ call' = Called("Matrix3x3.mulByMatrix3x3", a.ret, <<b.ret>>, p.ret)

LeftIdentity3x3 ==
    /\ call.op = "none"
    /\ \E a \in {NewMatrix3x3(heap, Sample(3, call.args[1]))} :
       \E i \in {Matrix3x3_identity(a.heap)} :
       \E p \in {Matrix3x3_mulByMatrix3x3(i.heap, i.ret, a.ret)} :
          /\ heap' = p.heap
          /\ call' = Called("Matrix3x3.leftIdentity", i.ret, <<a.ret>>, p.ret)

RightIdentity3x3 ==
    /\ call.op = "none"
    /\ \E a \in {NewMatrix3x3(heap, Sample(3, call.args[1]))} :
       \E i \in {Matrix3x3_identity(a.heap)} :
       \E p \in {Matrix3x3_mulByMatrix3x3(i.heap, a.ret, i.ret)} :
          /\ heap' = p.heap
          /\ call' = Called("Matrix3x3.rightIdentity", a.ret, <<i.ret>>, p.ret)

Translate3x3 ==
    /\ call.op = "none"
    /\ \E t \in Triples :
       \E a \in {NewMatrix3x3(heap, Sample(3, call.args[1]))} :
       \E p \in {Matrix3x3_translate(a.heap, a.ret, t[1], t[2])} :
          /\ heap' = p.heap
          /\ call' = Called("Matrix3x3.translate", a.ret, <<t>>, p.ret)

Scale3x3 ==
    /\ call.op = "none"
    /\ \E t \in Triples :
       \E a \in {NewMatrix3x3(heap, Sample(3, call.args[1]))} :
       \E p \in {Matrix3x3_scale(a.heap, a.ret, t[1], t[2])} :
          /\ heap' = p.heap
          /\ call' = Called("Matrix3x3.scale", a.ret, <<t>>, p.ret)

Rotate3x3 ==
    /\ call.op = "none"
    /\ \E r \in Angles :
       \E a \in {NewMatrix3x3(heap, Sample(3, call.args[1]))} :
       \E p \in {Matrix3x3_rotate(a.heap, a.ret, r)} :
          /\ heap' = p.heap
          /\ call' = Called("Matrix3x3.rotate", a.ret, <<r>>, p.ret)

Construct4x4 ==
    /\ call.op = "none"
    /\ \E m \in {NewMatrix4x4(heap, Sample(4, call.args[1]))} :
          /\ heap' = m.heap
          /\ call' = Called("Matrix4x4.new", 0, <<Sample(4, call.args[1])>>, m.ret)

Identity4x4 ==
    /\ call.op = "none"
    /\ \E m \in {Matrix4x4_identity(heap)} :
          /\ heap' = m.heap
          /\ call' = Called("Matrix4x4.identity", 0, <<>>, m.ret)

Translation4x4 ==
    /\ call.op = "none"
    /\ \E t \in Triples :
       \E m \in {Matrix4x4_translation(heap, t[1], t[2], t[3])} :
          /\ heap' = m.heap
          /\ call' = Called("Matrix4x4.translation", 0, <<t>>, m.ret)

Scaling4x4 ==
    /\ call.op = "none"
    /\ \E t \in Triples :
       \E m \in {Matrix4x4_scaling(heap, t[1], t[2], t[3])} :
          /\ heap' = m.heap
          /\ call' = Called("Matrix4x4.scaling", 0, <<t>>, m.ret)

RotationX4x4 ==
    /\ call.op = "none"
    /\ \E r \in Angles :
       \E m \in {Matrix4x4_rotationX(heap, r)} :
          /\ heap' = m.heap
          /\ call' = Called("Matrix4x4.rotationX", 0, <<r>>, m.ret)

RotationY4x4 ==
    /\ call.op = "none"
    /\ \E r \in Angles :
       \E m \in {Matrix4x4_rotationY(heap, r)} :
          /\ heap' = m.heap
          /\ call' = Called("Matrix4x4.rotationY", 0, <<r>>, m.ret)

RotationZ4x4 ==
    /\ call.op = "none"
    /\ \E r \in Angles :
       \E m \in {Matrix4x4_rotationZ(heap, r)} :
          /\ heap' = m.heap
          /\ call' = Called("Matrix4x4.rotationZ", 0, <<r>>, m.ret)

RotationAround4x4 ==
    /\ call.op = "none"
    /\ \E x \in GivenAxes, r \in Angles :
       \E v \in {Float32Vector3(heap, x[1], x[2], x[3])} :
       \E m \in {Matrix4x4_rotationAround(v.heap, v.ret, ScaleAngle(Two, r))} :
          /\ heap' = m.heap
          /\ call' = Called("Matrix4x4.rotationAround", 0, <<v.ret, ScaleAngle(Two, r)>>, m.ret)

MulByVector4 ==
    /\ call.op = "none"
    /\ \E a \in {NewMatrix4x4(heap, Sample(4, call.args[1]))} :
       \E v \in {New(a.heap, "Float32Vector4", SampleVector(4, call.args[2]))} :
       \E p \in {Matrix4x4_mulByVector4(v.heap, a.ret, v.ret)} :
          /\ heap' = p.heap
          /\ call' = Called("Matrix4x4.mulByVector4", a.ret, <<v.ret>>, p.ret)

MulByMatrix4x4 ==
    /\ call.op = "none"
    /\ \E a \in {NewMatrix4x4(heap, Sample(4, call.args[1]))} :
       \E b \in {NewMatrix4x4(a.heap, Sample(4, call.args[2]))} :
       \E p \in {Matrix4x4_mulByMatrix4x4(b.heap, a.ret, b.ret)} :
          /\ heap' = p.heap
          /\ call' = Called("Matrix4x4.mulByMatrix4x4", a.ret, <<b.ret>>, p.ret)

LeftIdentity4x4 ==
    /\ call.op = "none"
    /\ \E a \in {NewMatrix4x4(heap, Sample(4, call.args[1]))} :
       \E i \in {Matrix4x4_identity(a.heap)} :
       \E p \in {Matrix4x4_mulByMatrix4x4(i.heap, i.ret, a.ret)} :
          /\ heap' = p.heap
          /\ call' = Called("Matrix4x4.leftIdentity", i.ret, <<a.ret>>, p.ret)

RightIdentity4x4 ==
    /\ call.op = "none"
    /\ \E a \in {NewMatrix4x4(heap, Sample(4, call.args[1]))} :
       \E i \in {Matrix4x4_identity(a.heap)} :
       \E p \in {Matrix4x4_mulByMatrix4x4(i.heap, a.ret, i.ret)} :
          /\ heap' = p.heap
          /\ call' = Called("Matrix4x4.rightIdentity", a.ret, <<i.ret>>, p.ret)

Translate4x4 ==
    /\ call.op = "none"
    /\ \E t \in Triples :
       \E a \in {NewMatrix4x4(heap, Sample(4, call.args[1]))} :
       \E p \in {Matrix4x4_translate(a.heap, a.ret, t[1], t[2], t[3])} :
          /\ heap' = p.heap
          /\ call' = Called("Matrix4x4.translate", a.ret, <<t>>, p.ret)

Scale4x4 ==
    /\ call.op = "none"
    /\ \E t \in Triples :
       \E a \in {NewMatrix4x4(heap, Sample(4, call.args[1]))} :
       \E p \in {Matrix4x4_scale(a.heap, a.ret, t[1], t[2], t[3])} :
          /\ heap' = p.heap
          /\ call' = Called("Matrix4x4.scale", a.ret, <<t>>, p.ret)

RotateX4x4 ==
    /\ call.op = "none"
    /\ \E r \in Angles :
       \E a \in {NewMatrix4x4(heap, Sample(4, call.args[1]))} :
       \E p \in {Matrix4x4_rotateX(a.heap, a.ret, r)} :
          /\ heap' = p.heap
          /\ call' = Called("Matrix4x4.rotateX", a.ret, <<r>>, p.ret)

RotateY4x4 ==
    /\ call.op = "none"
    /\ \E r \in Angles :
       \E a \in {NewMatrix4x4(heap, Sample(4, call.args[1]))} :
       \E p \in {Matrix4x4_rotateY(a.heap, a.ret, r)} :
          /\ heap' = p.heap
          /\ call' = Called("Matrix4x4.rotateY", a.ret, <<r>>, p.ret)

RotateZ4x4 ==
    /\ call.op = "none"
    /\ \E r \in Angles :
       \E a \in {NewMatrix4x4(heap, Sample(4, call.args[1]))} :
       \E p \in {Matrix4x4_rotateZ(a.heap, a.ret, r)} :
          /\ heap' = p.heap
          /\ call' = Called("Matrix4x4.rotateZ", a.ret, <<r>>, p.ret)

RotateAround4x4 ==
    /\ call.op = "none"
    /\ \E x \in Axes, r \in Angles :
       \E a \in {NewMatrix4x4(heap, Sample(4, call.args[1]))} :
       \E v \in {Float32Vector3(a.heap, x[1], x[2], x[3])} :
       \E p \in {Matrix4x4_rotateAround(v.heap, a.ret, v.ret, ScaleAngle(Two, r))} :
          /\ heap' = p.heap
          /\ call' = Called("Matrix4x4.rotateAround", a.ret, <<v.ret, ScaleAngle(Two, r)>>, p.ret)

\* a client rotates the point (v.x, v.y, v.z, 1) with the matrix of the
\* quaternion of a rotation around a unit axis:
\* Quaternion.rotationAround(axis, radian).toRotationMatrix4().mulByVector4(v)
RotateVectorByQuaternion ==
    /\ call.op = "none"
    /\ \E x \in Axes, r \in Angles, t \in Triples :
       \E axis \in {Float32Vector3(heap, x[1], x[2], x[3])} :
       \E q \in {Quaternion_rotationAround(axis.heap, axis.ret, ScaleAngle(Two, r))} :
       \E m \in {Quaternion_toRotationMatrix4(q.heap, q.ret)} :
       \E v \in {Float32Vector4(m.heap, t[1], t[2], t[3], One)} :
       \E p \in {Matrix4x4_mulByVector4(v.heap, m.ret, v.ret)} :
          /\ heap' = p.heap
          /\ call' = Called("rotateVector", q.ret, <<v.ret>>, p.ret)

\* the coordinate axes, as the unit vectors a client passes
BasisVectors == <<<<One, Zero, Zero>>, <<Zero, One, Zero>>, <<Zero, Zero, One>>>>

\* Matrix4x4.rotationX, rotationY or rotationZ, by the number of the axis
AxisRotation(h, k, radian) ==
    CASE k = 1 -> Matrix4x4_rotationX(h, radian)
      [] k = 2 -> Matrix4x4_rotationY(h, radian)
      [] k = 3 -> Matrix4x4_rotationZ(h, radian)

\* a client builds the rotation about a coordinate axis twice, with
\* rotationX/Y/Z(radian) and with rotationAround(axis, radian), and rotates a
\* unit vector with the first: Matrix4x4.rotationX(r).mulByVector4((e, 1))
RotateBasisVector ==
    /\ call.op = "none"
    /\ \E k \in 1..3, e \in 1..3, a \in Angles :
       \E r \in {ScaleAngle(Two, a)} :
       \E m \in {AxisRotation(heap, k, r)} :
       \E axis \in {Float32Vector3(m.heap, BasisVectors[k][1], BasisVectors[k][2],
                                    BasisVectors[k][3])} :
       \E around \in {Matrix4x4_rotationAround(axis.heap, axis.ret, r)} :
       \E v \in {Float32Vector4(around.heap, BasisVectors[e][1], BasisVectors[e][2],
                                 BasisVectors[e][3], One)} :
       \E p \in {Matrix4x4_mulByVector4(v.heap, m.ret, v.ret)} :
          /\ heap' = p.heap
          /\ call' = Called("rotateBasisVector", m.ret, <<k, e, r, around.ret>>, p.ret)

\* Matrix3x3.translation(tx, ty).mulByVector3((x, y, 1)) and
\* Matrix3x3.scaling(sx, sy).mulByVector3((x, y, 1))
TransformPoint3x3 ==
    /\ call.op = "none"
    /\ \E f \in {"translation", "scaling"}, t \in Triples, x \in Triples :
       \E m \in {IF f = "translation" THEN Matrix3x3_translation(heap, t[1], t[2])
                  ELSE Matrix3x3_scaling(heap, t[1], t[2])} :
       \E v \in {Float32Vector3(m.heap, x[1], x[2], One)} :
       \E p \in {Matrix3x3_mulByVector3(v.heap, m.ret, v.ret)} :
          /\ heap' = p.heap
          /\ call' = Called("transformPoint3x3", m.ret, <<f, t, v.ret>>, p.ret)

\* Matrix4x4.translation(tx, ty, tz).mulByVector4((x, y, z, 1)) and
\* Matrix4x4.scaling(sx, sy, sz).mulByVector4((x, y, z, 1))
TransformPoint4x4 ==
    /\ call.op = "none"
    /\ \E f \in {"translation", "scaling"}, t \in Triples, x \in Triples :
       \E m \in {IF f = "translation" THEN Matrix4x4_translation(heap, t[1], t[2], t[3])
                  ELSE Matrix4x4_scaling(heap, t[1], t[2], t[3])} :
       \E v \in {Float32Vector4(m.heap, x[1], x[2], x[3], One)} :
       \E p \in {Matrix4x4_mulByVector4(v.heap, m.ret, v.ret)} :
          /\ heap' = p.heap
          /\ call' = Called("transformPoint4x4", m.ret, <<f, t, v.ret>>, p.ret)

\* a.mulByMatrix3x3(b).mulByVector3(v) and a.mulByVector3(b.mulByVector3(v))
ProductThenVector3 ==
    /\ call.op = "none"
    /\ \E a \in {NewMatrix3x3(heap, Sample(3, call.args[1]))} :
       \E b \in {NewMatrix3x3(a.heap, Sample(3, call.args[2]))} :
       \E v \in {New(b.heap, "Float32Vector3", SampleVector(3, call.args[2]))} :
       \E ab \in {Matrix3x3_mulByMatrix3x3(v.heap, a.ret, b.ret)} :
       \E p \in {Matrix3x3_mulByVector3(ab.heap, ab.ret, v.ret)} :
       \E bv \in {Matrix3x3_mulByVector3(p.heap, b.ret, v.ret)} :
       \E q \in {Matrix3x3_mulByVector3(bv.heap, a.ret, bv.ret)} :
          /\ heap' = q.heap
          /\ call' = Called("productThenVector3", a.ret, <<b.ret, v.ret, bv.ret, q.ret>>, p.ret)

\* a.mulByMatrix4x4(b).mulByVector4(v) and a.mulByVector4(b.mulByVector4(v))
ProductThenVector4 ==
    /\ call.op = "none"
    /\ \E a \in {NewMatrix4x4(heap, Sample(4, call.args[1]))} :
       \E b \in {NewMatrix4x4(a.heap, Sample(4, call.args[2]))} :
       \E v \in {New(b.heap, "Float32Vector4", SampleVector(4, call.args[2]))} :
       \E ab \in {Matrix4x4_mulByMatrix4x4(v.heap, a.ret, b.ret)} :
       \E p \in {Matrix4x4_mulByVector4(ab.heap, ab.ret, v.ret)} :
       \E bv \in {Matrix4x4_mulByVector4(p.heap, b.ret, v.ret)} :
       \E q \in {Matrix4x4_mulByVector4(bv.heap, a.ret, bv.ret)} :
          /\ heap' = q.heap
          /\ call' = Called("productThenVector4", a.ret, <<b.ret, v.ret, bv.ret, q.ret>>, p.ret)

\* Matrix4x4.identity().translate(tx, ty, tz).scale(sx, sy, sz)
\*     .mulByVector4(new Float32Vector4(x, y, z, 1))
TranslateThenScale ==
    /\ call.op = "none"
    /\ \E t \in Triples, s \in Triples, x \in Triples :
       \E i \in {Matrix4x4_identity(heap)} :
       \E m \in {Matrix4x4_translate(i.heap, i.ret, t[1], t[2], t[3])} :
       \E n \in {Matrix4x4_scale(m.heap, m.ret, s[1], s[2], s[3])} :
       \E v \in {Float32Vector4(n.heap, x[1], x[2], x[3], One)} :
       \E p \in {Matrix4x4_mulByVector4(v.heap, n.ret, v.ret)} :
          /\ heap' = p.heap
          /\ call' = Called("translateThenScale", n.ret, <<t, s, v.ret>>, p.ret)

NextMat ==
    \/ Construct2x2
    \/ Identity2x2
    \/ Construct3x3
    \/ Identity3x3
    \/ Translation3x3
    \/ Scaling3x3
    \/ Rotation3x3
    \/ MulByVector3
    \/ MulByMatrix3x3
    \/ LeftIdentity3x3
    \/ RightIdentity3x3
    \/ Translate3x3
    \/ Scale3x3
    \/ Rotate3x3
    \/ Construct4x4
    \/ Identity4x4
    \/ Translation4x4
    \/ Scaling4x4
    \/ RotationX4x4
    \/ RotationY4x4
    \/ RotationZ4x4
    \/ RotationAround4x4
    \/ MulByVector4
    \/ MulByMatrix4x4
    \/ LeftIdentity4x4
    \/ RightIdentity4x4
    \/ Translate4x4
    \/ Scale4x4
    \/ RotateX4x4
    \/ RotateY4x4
    \/ RotateZ4x4
    \/ RotateAround4x4
    \/ RotateVectorByQuaternion
    \/ RotateBasisVector
    \/ TransformPoint3x3
    \/ TransformPoint4x4
    \/ ProductThenVector3
    \/ ProductThenVector4
    \/ TranslateThenScale

SpecMat == InitMat /\ [][NextMat]_vars

---------------------------------------------------------------------------
(* The component setters *)

\* this._values[i] = value, with i from 1; a setter returns nothing
SetComponent(h, this, i, value) == [heap |-> [h EXCEPT ![this].values[i] = value], ret |-> 0]

Vector2Base_set_x(h, this, value) == SetComponent(h, this, 1, value)

Vector2Base_set_y(h, this, value) == SetComponent(h, this, 2, value)

Vector3Base_set_x(h, this, value) == SetComponent(h, this, 1, value)

Vector3Base_set_y(h, this, value) == SetComponent(h, this, 2, value)

Vector3Base_set_z(h, this, value) == SetComponent(h, this, 3, value)

Vector4Base_set_x(h, this, value) == SetComponent(h, this, 1, value)

Vector4Base_set_y(h, this, value) == SetComponent(h, this, 2, value)

Vector4Base_set_z(h, this, value) == SetComponent(h, this, 3, value)

Vector4Base_set_w(h, this, value) == SetComponent(h, this, 4, value)

Quaternion_set_x(h, this, value) == SetComponent(h, this, 1, value)

Quaternion_set_y(h, this, value) == SetComponent(h, this, 2, value)

Quaternion_set_z(h, this, value) == SetComponent(h, this, 3, value)

Quaternion_set_w(h, this, value) == SetComponent(h, this, 4, value)

---------------------------------------------------------------------------
(* SpecArith: vectors and quaternions on the heap.                          *)
(* A client creates instances and calls operations on the instances that   *)
(* exist, the receiver and the argument possibly being the same instance.  *)

\* the client creates instances while the heap has fewer than MaxHeap, and
\* calls operations while it has no more than MaxHeap
MaxHeap == 2

Vector2Pool == {<<Num(3), Num(4)>>}

Vector3Pool == {<<Zero, Zero, Zero>>, <<Num(3), Num(4), Zero>>, <<Num(1), Num(2), Num(2)>>}

Vector4Pool == {<<Num(2), Num(4), Num(4), Num(2)>>}

QuaternionPool ==
    {<<Zero, Zero, Zero, Zero>>, <<Num(2), Num(4), Num(5), Num(6)>>, <<Zero, Zero, Zero, Num(-1)>>,
     <<Rat(24, 25), Zero, Zero, Rat(7, 25)>>, <<Rat(-3, 5), Zero, Zero, Rat(-4, 5)>>}

Scalars == {Num(-1), Half}

\* the instances of a class
Refs(cls) == {r \in 1..Len(heap) : heap[r].cls = cls}

VectorRefs == Refs("Float32Vector2") \cup Refs("Float32Vector3") \cup Refs("Float32Vector4")

\* the magnitudes the model can take the root of
MagnitudeKnown(vals) == ~IsFinite(SumSq(vals)) \/ IsSquare(SumSq(vals))

\* the pairs whose interpolation only needs sines of known angles
SlerpKnown(this, other, t) ==
    \E dot \in {Quaternion_dot(heap, this, other).ret} :
    \E dotProd \in {IF Less(dot, Zero) THEN Neg(dot) ELSE dot} :
       \/ IsNaN(dotProd)
       \/ Less(One, dotProd)
       \/ \E p \in AcosTable :
             /\ p[1] = dotProd
             /\ IsLatticeAngle(ScaleAngle(t, p[2]))
             /\ IsLatticeAngle(ScaleAngle(Sub(One, t), p[2]))

InitArith ==
    /\ heap = <<>>
    /\ call = NoCall


NewVector2 ==
    /\ Len(heap) < MaxHeap
    /\ \E v \in Vector2Pool :
       \E p \in {Float32Vector2(heap, v[1], v[2])} :
          /\ heap' = p.heap
          /\ call' = Called("Float32Vector2.new", 0, <<v>>, p.ret)

NewVector3 ==
    /\ Len(heap) < MaxHeap
    /\ \E v \in Vector3Pool :
       \E p \in {Float32Vector3(heap, v[1], v[2], v[3])} :
          /\ heap' = p.heap
          /\ call' = Called("Float32Vector3.new", 0, <<v>>, p.ret)

NewVector4 ==
    /\ Len(heap) < MaxHeap
    /\ \E v \in Vector4Pool :
       \E p \in {Float32Vector4(heap, v[1], v[2], v[3], v[4])} :
          /\ heap' = p.heap
          /\ call' = Called("Float32Vector4.new", 0, <<v>>, p.ret)

NewQuaternion ==
    /\ Len(heap) < MaxHeap
    /\ \E v \in QuaternionPool :
       \E p \in {Quaternion(heap, v[1], v[2], v[3], v[4])} :
          /\ heap' = p.heap
          /\ call' = Called("Quaternion.new", 0, <<v>>, p.ret)

AddVector2 ==
    /\ Len(heap) <= MaxHeap
    /\ \E this \in Refs("Float32Vector2"), other \in Refs("Float32Vector2") :
       \E p \in {Float32Vector2_add(heap, this, other)} :
          /\ heap' = p.heap
          /\ call' = Called("Float32Vector2.add", this, <<other>>, p.ret)

SubVector2 ==
    /\ Len(heap) <= MaxHeap
    /\ \E this \in Refs("Float32Vector2"), other \in Refs("Float32Vector2") :
       \E p \in {Float32Vector2_sub(heap, this, other)} :
          /\ heap' = p.heap
          /\ call' = Called("Float32Vector2.sub", this, <<other>>, p.ret)

MulByScalarVector2 ==
    /\ Len(heap) <= MaxHeap
    /\ \E this \in Refs("Float32Vector2"), k \in Scalars :
       \E p \in {Float32Vector2_mulByScalar(heap, this, k)} :
          /\ heap' = p.heap
          /\ call' = Called("Float32Vector2.mulByScalar", this, <<k>>, p.ret)

AddVector3 ==
    /\ Len(heap) <= MaxHeap
    /\ \E this \in Refs("Float32Vector3"), other \in Refs("Float32Vector3") :
       \E p \in {Float32Vector3_add(heap, this, other)} :
          /\ heap' = p.heap
          /\ call' = Called("Float32Vector3.add", this, <<other>>, p.ret)

SubVector3 ==
    /\ Len(heap) <= MaxHeap
    /\ \E this \in Refs("Float32Vector3"), other \in Refs("Float32Vector3") :
       \E p \in {Float32Vector3_sub(heap, this, other)} :
          /\ heap' = p.heap
          /\ call' = Called("Float32Vector3.sub", this, <<other>>, p.ret)

MulByScalarVector3 ==
    /\ Len(heap) <= MaxHeap
    /\ \E this \in Refs("Float32Vector3"), k \in Scalars :
       \E p \in {Float32Vector3_mulByScalar(heap, this, k)} :
          /\ heap' = p.heap
          /\ call' = Called("Float32Vector3.mulByScalar", this, <<k>>, p.ret)

DotVector3 ==
    /\ Len(heap) <= MaxHeap
    /\ \E this \in Refs("Float32Vector3"), other \in Refs("Float32Vector3") :
       \E p \in {Float32Vector3_dot(heap, this, other)} :
          /\ heap' = p.heap
          /\ call' = Called("Float32Vector3.dot", this, <<other>>, p.ret)

CrossVector3 ==
    /\ Len(heap) <= MaxHeap
    /\ \E this \in Refs("Float32Vector3"), other \in Refs("Float32Vector3") :
       \E p \in {Float32Vector3_cross(heap, this, other)} :
          /\ heap' = p.heap
          /\ call' = Called("Float32Vector3.cross", this, <<other>>, p.ret)

NormalizeVector3 ==
    /\ Len(heap) <= MaxHeap
    /\ \E this \in Refs("Float32Vector3") :
       MagnitudeKnown(heap[this].values) /\
       \E p \in {Float32Vector3_normalize(heap, this)} :
          /\ heap' = p.heap
          /\ call' = Called("Float32Vector3.normalize", this, <<>>, p.ret)

XyVector3 ==
    /\ Len(heap) <= MaxHeap
    /\ \E this \in Refs("Float32Vector3") :
       \E p \in {Float32Vector3_xy(heap, this)} :
          /\ heap' = p.heap
          /\ call' = Called("Float32Vector3.xy", this, <<>>, p.ret)

Hom2cartVector3 ==
    /\ Len(heap) <= MaxHeap
    /\ \E this \in Refs("Float32Vector3") :
       \E p \in {Float32Vector3_hom2cart(heap, this)} :
          /\ heap' = p.heap
          /\ call' = Called("Float32Vector3.hom2cart", this, <<>>, p.ret)

AddVector4 ==
    /\ Len(heap) <= MaxHeap
    /\ \E this \in Refs("Float32Vector4"), other \in Refs("Float32Vector4") :
       \E p \in {Float32Vector4_add(heap, this, other)} :
          /\ heap' = p.heap
          /\ call' = Called("Float32Vector4.add", this, <<other>>, p.ret)

SubVector4 ==
    /\ Len(heap) <= MaxHeap
    /\ \E this \in Refs("Float32Vector4"), other \in Refs("Float32Vector4") :
       \E p \in {Float32Vector4_sub(heap, this, other)} :
          /\ heap' = p.heap
          /\ call' = Called("Float32Vector4.sub", this, <<other>>, p.ret)

MulByScalarVector4 ==
    /\ Len(heap) <= MaxHeap
    /\ \E this \in Refs("Float32Vector4"), k \in Scalars :
       \E p \in {Float32Vector4_mulByScalar(heap, this, k)} :
          /\ heap' = p.heap
          /\ call' = Called("Float32Vector4.mulByScalar", this, <<k>>, p.ret)

XyzVector4 ==
    /\ Len(heap) <= MaxHeap
    /\ \E this \in Refs("Float32Vector4") :
       \E p \in {Float32Vector4_xyz(heap, this)} :
          /\ heap' = p.heap
          /\ call' = Called("Float32Vector4.xyz", this, <<>>, p.ret)

Hom2cartVector4 ==
    /\ Len(heap) <= MaxHeap
    /\ \E this \in Refs("Float32Vector4") :
       \E p \in {Float32Vector4_hom2cart(heap, this)} :
          /\ heap' = p.heap
          /\ call' = Called("Float32Vector4.hom2cart", this, <<>>, p.ret)

MagnitudeVector ==
    /\ Len(heap) <= MaxHeap
    /\ \E this \in VectorRefs :
       MagnitudeKnown(heap[this].values) /\
       \E p \in {VectorBase_magnitude(heap, this)} :
          /\ heap' = p.heap
          /\ call' = Called("VectorBase.magnitude", this, <<>>, p.ret)

AddQuaternion ==
    /\ Len(heap) <= MaxHeap
    /\ \E this \in Refs("Quaternion"), other \in Refs("Quaternion") :
       \E p \in {Quaternion_add(heap, this, other)} :
          /\ heap' = p.heap
          /\ call' = Called("Quaternion.add", this, <<other>>, p.ret)

MulByScalarQuaternion ==
    /\ Len(heap) <= MaxHeap
    /\ \E this \in Refs("Quaternion"), k \in Scalars :
       \E p \in {Quaternion_mulByScalar(heap, this, k)} :
          /\ heap' = p.heap
          /\ call' = Called("Quaternion.mulByScalar", this, <<k>>, p.ret)

DotQuaternion ==
    /\ Len(heap) <= MaxHeap
    /\ \E this \in Refs("Quaternion"), other \in Refs("Quaternion") :
       \E p \in {Quaternion_dot(heap, this, other)} :
          /\ heap' = p.heap
          /\ call' = Called("Quaternion.dot", this, <<other>>, p.ret)

NormalizeQuaternion ==
    /\ Len(heap) <= MaxHeap
    /\ \E this \in Refs("Quaternion") :
       MagnitudeKnown(heap[this].values) /\
       \E p \in {Quaternion_normalize(heap, this)} :
          /\ heap' = p.heap
          /\ call' = Called("Quaternion.normalize", this, <<>>, p.ret)

\* what a caller passes as slerp's third argument: nothing, or either value
OptionsGiven == {<<>>, <<TRUE>>, <<FALSE>>}

SlerpQuaternion ==
    /\ Len(heap) <= MaxHeap
    /\ \E this \in Refs("Quaternion"), other \in Refs("Quaternion"), t \in {Zero, Half, One},
          options \in OptionsGiven :
       SlerpKnown(this, other, t) /\
       \E p \in {Quaternion_slerp(heap, this, other, t, options)} :
          /\ heap' = p.heap
          /\ call' = Called("Quaternion.slerp", this, <<other, t, options>>, p.ret)

MagnitudeQuaternion ==
    /\ Len(heap) <= MaxHeap
    /\ \E this \in Refs("Quaternion") :
       MagnitudeKnown(heap[this].values) /\
       \E p \in {Quaternion_magnitude(heap, this)} :
          /\ heap' = p.heap
          /\ call' = Called("Quaternion.magnitude", this, <<>>, p.ret)

ToRotationMatrix4Quaternion ==
    /\ Len(heap) <= MaxHeap
    /\ \E this \in Refs("Quaternion") :
       \E p \in {Quaternion_toRotationMatrix4(heap, this)} :
          /\ heap' = p.heap
          /\ call' = Called("Quaternion.toRotationMatrix4", this, <<>>, p.ret)

NextArith ==
    \/ NewVector2
    \/ NewVector3
    \/ NewVector4
    \/ NewQuaternion
    \/ AddVector2
    \/ SubVector2
    \/ MulByScalarVector2
    \/ AddVector3
    \/ SubVector3
    \/ MulByScalarVector3
    \/ DotVector3
    \/ CrossVector3
    \/ NormalizeVector3
    \/ XyVector3
    \/ Hom2cartVector3
    \/ AddVector4
    \/ SubVector4
    \/ MulByScalarVector4
    \/ XyzVector4
    \/ Hom2cartVector4
    \/ MagnitudeVector
    \/ AddQuaternion
    \/ MulByScalarQuaternion
    \/ DotQuaternion
    \/ NormalizeQuaternion
    \/ SlerpQuaternion
    \/ MagnitudeQuaternion
    \/ ToRotationMatrix4Quaternion

SpecArith == InitArith /\ [][NextArith]_vars

---------------------------------------------------------------------------
(* SpecSet: the operations that return a vector or a quaternion, followed  *)
(* by writes into the components of the instance returned.                 *)

\* the values a client writes into a component
SetValues == {One}

\* the operations that return an instance with component setters
InstanceOps ==
    {"Float32Vector2.add", "Float32Vector2.sub", "Float32Vector2.mulByScalar",
     "Float32Vector3.add", "Float32Vector3.sub", "Float32Vector3.mulByScalar",
     "Float32Vector3.cross", "Float32Vector3.normalize", "Float32Vector3.xy",
     "Float32Vector3.hom2cart", "Float32Vector4.add", "Float32Vector4.sub",
     "Float32Vector4.mulByScalar", "Float32Vector4.xyz", "Float32Vector4.hom2cart",
     "Quaternion.add", "Quaternion.mulByScalar", "Quaternion.normalize", "Quaternion.slerp"}

\* result.x = value, result.y = value: the client writes a component of the
\* instance the last call returned
SetVector2 ==
    /\ call.op \in InstanceOps
    /\ heap[call.ret].cls = "Float32Vector2"
    /\ \E value \in SetValues :
       \E p \in {[c |-> "x", r |-> Vector2Base_set_x(heap, call.ret, value)],
                 [c |-> "y", r |-> Vector2Base_set_y(heap, call.ret, value)]} :
          /\ heap' = p.r.heap
          /\ call' = Called("Float32Vector2.set", call.ret, <<p.c, value>>, p.r.ret)

SetVector3 ==
    /\ call.op \in InstanceOps
    /\ heap[call.ret].cls = "Float32Vector3"
    /\ \E value \in SetValues :
       \E p \in {[c |-> "x", r |-> Vector3Base_set_x(heap, call.ret, value)],
                 [c |-> "y", r |-> Vector3Base_set_y(heap, call.ret, value)],
                 [c |-> "z", r |-> Vector3Base_set_z(heap, call.ret, value)]} :
          /\ heap' = p.r.heap
          /\ call' = Called("Float32Vector3.set", call.ret, <<p.c, value>>, p.r.ret)

SetVector4 ==
    /\ call.op \in InstanceOps
    /\ heap[call.ret].cls = "Float32Vector4"
    /\ \E value \in SetValues :
       \E p \in {[c |-> "x", r |-> Vector4Base_set_x(heap, call.ret, value)],
                 [c |-> "y", r |-> Vector4Base_set_y(heap, call.ret, value)],
                 [c |-> "z", r |-> Vector4Base_set_z(heap, call.ret, value)],
                 [c |-> "w", r |-> Vector4Base_set_w(heap, call.ret, value)]} :
          /\ heap' = p.r.heap
          /\ call' = Called("Float32Vector4.set", call.ret, <<p.c, value>>, p.r.ret)

SetQuaternion ==
    /\ call.op \in InstanceOps
    /\ heap[call.ret].cls = "Quaternion"
    /\ \E value \in SetValues :
       \E p \in {[c |-> "x", r |-> Quaternion_set_x(heap, call.ret, value)],
                 [c |-> "y", r |-> Quaternion_set_y(heap, call.ret, value)],
                 [c |-> "z", r |-> Quaternion_set_z(heap, call.ret, value)],
                 [c |-> "w", r |-> Quaternion_set_w(heap, call.ret, value)]} :
          /\ heap' = p.r.heap
          /\ call' = Called("Quaternion.set", call.ret, <<p.c, value>>, p.r.ret)

NextSet ==
    \/ NewVector2
    \/ NewVector3
    \/ NewVector4
    \/ NewQuaternion
    \/ AddVector2
    \/ SubVector2
    \/ MulByScalarVector2
    \/ AddVector3
    \/ SubVector3
    \/ MulByScalarVector3
    \/ CrossVector3
    \/ NormalizeVector3
    \/ AddVector4
    \/ SubVector4
    \/ MulByScalarVector4
    \/ AddQuaternion
    \/ MulByScalarQuaternion
    \/ NormalizeQuaternion
    \/ SetVector2
    \/ SetVector3
    \/ SetVector4
    \/ SetQuaternion

SpecSet == InitArith /\ [][NextSet]_vars

---------------------------------------------------------------------------
(* SpecChain: sequences of operations on the matrices of the heap.          *)
(* A client creates matrices and vectors and calls the operations of the   *)
(* matrices that exist, on the results of earlier calls as well.           *)

\* the seed of the numbers the client passes to the constructors
ChainSeed == 2

\* (tx, ty, tz) and (sx, sy, sz) of the sequences
ChainTriple == <<Num(2), Num(-1), Num(3)>>

\* the angle of the sequences: a quarter turn, and twice that for rotateAround
\* (a sequence of products keeps its numbers small)
ChainAngle == <<One, Zero>>


Make2x2 ==
    /\ Len(heap) < MaxHeap
    /\ \E m \in {NewMatrix2x2(heap, Sample(2, ChainSeed))} :
          /\ heap' = m.heap
          /\ call' = Called("Matrix2x2.new", 0, <<>>, m.ret)

MakeIdentity2x2 ==
    /\ Len(heap) < MaxHeap
    /\ \E m \in {Matrix2x2_identity(heap)} :
          /\ heap' = m.heap
          /\ call' = Called("Matrix2x2.identity", 0, <<>>, m.ret)

ReadValues2x2 ==
    /\ Len(heap) <= MaxHeap
    /\ \E this \in Refs("Matrix2x2") :
       \E p \in {Matrix2x2_values(heap, this)} :
          /\ heap' = p.heap
          /\ call' = Called("Matrix2x2.values", this, <<>>, p.ret)

Make3x3 ==
    /\ Len(heap) < MaxHeap
    /\ \E m \in {NewMatrix3x3(heap, Sample(3, ChainSeed))} :
          /\ heap' = m.heap
          /\ call' = Called("Matrix3x3.new", 0, <<>>, m.ret)

MakeIdentity3x3 ==
    /\ Len(heap) < MaxHeap
    /\ \E m \in {Matrix3x3_identity(heap)} :
          /\ heap' = m.heap
          /\ call' = Called("Matrix3x3.identity", 0, <<>>, m.ret)

ReadValues3x3 ==
    /\ Len(heap) <= MaxHeap
    /\ \E this \in Refs("Matrix3x3") :
       \E p \in {Matrix3x3_values(heap, this)} :
          /\ heap' = p.heap
          /\ call' = Called("Matrix3x3.values", this, <<>>, p.ret)

MakeTranslation3x3 ==
    /\ Len(heap) < MaxHeap
    /\ \E m \in {Matrix3x3_translation(heap, ChainTriple[1], ChainTriple[2])} :
          /\ heap' = m.heap
          /\ call' = Called("Matrix3x3.translation", 0, <<>>, m.ret)

MakeScaling3x3 ==
    /\ Len(heap) < MaxHeap
    /\ \E m \in {Matrix3x3_scaling(heap, ChainTriple[1], ChainTriple[2])} :
          /\ heap' = m.heap
          /\ call' = Called("Matrix3x3.scaling", 0, <<>>, m.ret)

MakeRotation3x3 ==
    /\ Len(heap) < MaxHeap
    /\ \E m \in {Matrix3x3_rotation(heap, ChainAngle)} :
          /\ heap' = m.heap
          /\ call' = Called("Matrix3x3.rotation", 0, <<>>, m.ret)

ChainMulByVector3 ==
    /\ Len(heap) <= MaxHeap
    /\ \E this \in Refs("Matrix3x3"), other \in Refs("Float32Vector3") :
       \E p \in {Matrix3x3_mulByVector3(heap, this, other)} :
          /\ heap' = p.heap
          /\ call' = Called("Matrix3x3.mulByVector3", this, <<other>>, p.ret)

ChainMulByMatrix3x3 ==
    /\ Len(heap) <= MaxHeap
    /\ \E this \in Refs("Matrix3x3"), other \in Refs("Matrix3x3") :
       \E p \in {Matrix3x3_mulByMatrix3x3(heap, this, other)} :
          /\ heap' = p.heap
          /\ call' = Called("Matrix3x3.mulByMatrix3x3", this, <<other>>, p.ret)

ChainTranslate3x3 ==
    /\ Len(heap) <= MaxHeap
    /\ \E this \in Refs("Matrix3x3") :
       \E p \in {Matrix3x3_translate(heap, this, ChainTriple[1], ChainTriple[2])} :
          /\ heap' = p.heap
          /\ call' = Called("Matrix3x3.translate", this, <<ChainTriple>>, p.ret)

ChainScale3x3 ==
    /\ Len(heap) <= MaxHeap
    /\ \E this \in Refs("Matrix3x3") :
       \E p \in {Matrix3x3_scale(heap, this, ChainTriple[1], ChainTriple[2])} :
          /\ heap' = p.heap
          /\ call' = Called("Matrix3x3.scale", this, <<ChainTriple>>, p.ret)

ChainRotate3x3 ==
    /\ Len(heap) <= MaxHeap
    /\ \E this \in Refs("Matrix3x3") :
       \E p \in {Matrix3x3_rotate(heap, this, ChainAngle)} :
          /\ heap' = p.heap
          /\ call' = Called("Matrix3x3.rotate", this, <<ChainAngle>>, p.ret)

Make4x4 ==
    /\ Len(heap) < MaxHeap
    /\ \E m \in {NewMatrix4x4(heap, Sample(4, ChainSeed))} :
          /\ heap' = m.heap
          /\ call' = Called("Matrix4x4.new", 0, <<>>, m.ret)

MakeIdentity4x4 ==
    /\ Len(heap) < MaxHeap
    /\ \E m \in {Matrix4x4_identity(heap)} :
          /\ heap' = m.heap
          /\ call' = Called("Matrix4x4.identity", 0, <<>>, m.ret)

ReadValues4x4 ==
    /\ Len(heap) <= MaxHeap
    /\ \E this \in Refs("Matrix4x4") :
       \E p \in {Matrix4x4_values(heap, this)} :
          /\ heap' = p.heap
          /\ call' = Called("Matrix4x4.values", this, <<>>, p.ret)

MakeTranslation4x4 ==
    /\ Len(heap) < MaxHeap
    /\ \E m \in {Matrix4x4_translation(heap, ChainTriple[1], ChainTriple[2], ChainTriple[3])} :
          /\ heap' = m.heap
          /\ call' = Called("Matrix4x4.translation", 0, <<>>, m.ret)

MakeScaling4x4 ==
    /\ Len(heap) < MaxHeap
    /\ \E m \in {Matrix4x4_scaling(heap, ChainTriple[1], ChainTriple[2], ChainTriple[3])} :
          /\ heap' = m.heap
          /\ call' = Called("Matrix4x4.scaling", 0, <<>>, m.ret)

MakeRotationX4x4 ==
    /\ Len(heap) < MaxHeap
    /\ \E m \in {Matrix4x4_rotationX(heap, ChainAngle)} :
          /\ heap' = m.heap
          /\ call' = Called("Matrix4x4.rotationX", 0, <<>>, m.ret)

MakeRotationY4x4 ==
    /\ Len(heap) < MaxHeap
    /\ \E m \in {Matrix4x4_rotationY(heap, ChainAngle)} :
          /\ heap' = m.heap
          /\ call' = Called("Matrix4x4.rotationY", 0, <<>>, m.ret)

MakeRotationZ4x4 ==
    /\ Len(heap) < MaxHeap
    /\ \E m \in {Matrix4x4_rotationZ(heap, ChainAngle)} :
          /\ heap' = m.heap
          /\ call' = Called("Matrix4x4.rotationZ", 0, <<>>, m.ret)

MakeRotationAround4x4 ==
    /\ Len(heap) < MaxHeap
    /\ \E axis \in Refs("Float32Vector3") :
       \E m \in {Matrix4x4_rotationAround(heap, axis, ScaleAngle(Two, ChainAngle))} :
          /\ heap' = m.heap
          /\ call' = Called("Matrix4x4.rotationAround", 0, <<>>, m.ret)

ChainMulByVector4 ==
    /\ Len(heap) <= MaxHeap
    /\ \E this \in Refs("Matrix4x4"), other \in Refs("Float32Vector4") :
       \E p \in {Matrix4x4_mulByVector4(heap, this, other)} :
          /\ heap' = p.heap
          /\ call' = Called("Matrix4x4.mulByVector4", this, <<other>>, p.ret)

ChainMulByMatrix4x4 ==
    /\ Len(heap) <= MaxHeap
    /\ \E this \in Refs("Matrix4x4"), other \in Refs("Matrix4x4") :
       \E p \in {Matrix4x4_mulByMatrix4x4(heap, this, other)} :
          /\ heap' = p.heap
          /\ call' = Called("Matrix4x4.mulByMatrix4x4", this, <<other>>, p.ret)

ChainTranslate4x4 ==
    /\ Len(heap) <= MaxHeap
    /\ \E this \in Refs("Matrix4x4") :
       \E p \in {Matrix4x4_translate(heap, this, ChainTriple[1], ChainTriple[2], ChainTriple[3])} :
          /\ heap' = p.heap
          /\ call' = Called("Matrix4x4.translate", this, <<ChainTriple>>, p.ret)

ChainScale4x4 ==
    /\ Len(heap) <= MaxHeap
    /\ \E this \in Refs("Matrix4x4") :
       \E p \in {Matrix4x4_scale(heap, this, ChainTriple[1], ChainTriple[2], ChainTriple[3])} :
          /\ heap' = p.heap
          /\ call' = Called("Matrix4x4.scale", this, <<ChainTriple>>, p.ret)

ChainRotateX4x4 ==
    /\ Len(heap) <= MaxHeap
    /\ \E this \in Refs("Matrix4x4") :
       \E p \in {Matrix4x4_rotateX(heap, this, ChainAngle)} :
          /\ heap' = p.heap
          /\ call' = Called("Matrix4x4.rotateX", this, <<ChainAngle>>, p.ret)

ChainRotateY4x4 ==
    /\ Len(heap) <= MaxHeap
    /\ \E this \in Refs("Matrix4x4") :
       \E p \in {Matrix4x4_rotateY(heap, this, ChainAngle)} :
          /\ heap' = p.heap
          /\ call' = Called("Matrix4x4.rotateY", this, <<ChainAngle>>, p.ret)

ChainRotateZ4x4 ==
    /\ Len(heap) <= MaxHeap
    /\ \E this \in Refs("Matrix4x4") :
       \E p \in {Matrix4x4_rotateZ(heap, this, ChainAngle)} :
          /\ heap' = p.heap
          /\ call' = Called("Matrix4x4.rotateZ", this, <<ChainAngle>>, p.ret)

ChainRotateAround4x4 ==
    /\ Len(heap) <= MaxHeap
    /\ \E this \in Refs("Matrix4x4"), axis \in Refs("Float32Vector3") :
       \E p \in {Matrix4x4_rotateAround(heap, this, axis, ScaleAngle(Two, ChainAngle))} :
          /\ heap' = p.heap
          /\ call' = Called("Matrix4x4.rotateAround", this, <<axis, ScaleAngle(Two, ChainAngle)>>, p.ret)

NextChain ==
    \/ NewVector3
    \/ NewVector4
    \/ Make2x2
    \/ MakeIdentity2x2
    \/ ReadValues2x2
    \/ Make3x3
    \/ MakeIdentity3x3
    \/ ReadValues3x3
    \/ MakeTranslation3x3
    \/ MakeScaling3x3
    \/ MakeRotation3x3
    \/ ChainMulByVector3
    \/ ChainMulByMatrix3x3
    \/ ChainTranslate3x3
    \/ ChainScale3x3
    \/ ChainRotate3x3
    \/ Make4x4
    \/ MakeIdentity4x4
    \/ ReadValues4x4
    \/ MakeTranslation4x4
    \/ MakeScaling4x4
    \/ MakeRotationX4x4
    \/ MakeRotationY4x4
    \/ MakeRotationZ4x4
    \/ MakeRotationAround4x4
    \/ ChainMulByVector4
    \/ ChainMulByMatrix4x4
    \/ ChainTranslate4x4
    \/ ChainScale4x4
    \/ ChainRotateX4x4
    \/ ChainRotateY4x4
    \/ ChainRotateZ4x4
    \/ ChainRotateAround4x4

SpecChain == InitArith /\ [][NextChain]_vars


---------------------------------------------------------------------------
(* SpecCam: the camera and the projection matrices.                        *)
(* A client calls lookAt, orthographic, frustum or perspective once, with  *)
(* arguments that include the degenerate ones (an eye on the target, an up *)
(* vector along the line of sight, an empty view volume).                  *)

\* the largest extent of a view volume
MaxExtent == 2

\* positions of the camera and of the point it looks at
CameraEyes ==
    {<<Num(12), Num(15), Num(16)>>, <<Num(3), Zero, Num(4)>>, <<Zero, Num(3), Num(4)>>,
     <<Num(13), Num(17), Num(19)>>, <<Num(1), Num(2), Num(3)>>}

CameraTargets == {<<Zero, Zero, Zero>>, <<Num(1), Num(2), Num(3)>>}

CameraUps == {<<Zero, One, Zero>>, <<Zero, Zero, Num(2)>>, <<Zero, Num(3), Num(4)>>}

\* the arguments for which every magnitude lookAt takes is a fraction
LookAtKnown(eye, target, up) ==
    \E a \in {Float32Vector3(<<>>, eye[1], eye[2], eye[3])} :
    \E b \in {Float32Vector3(a.heap, target[1], target[2], target[3])} :
    \E u \in {Float32Vector3(b.heap, up[1], up[2], up[3])} :
    \E d \in {Float32Vector3_sub(u.heap, a.ret, b.ret)} :
       /\ MagnitudeKnown(d.heap[d.ret].values)
       /\ \E zAxis \in {Float32Vector3_normalize(d.heap, d.ret)} :
          \E c \in {Float32Vector3_cross(zAxis.heap, u.ret, zAxis.ret)} :
             /\ MagnitudeKnown(c.heap[c.ret].values)
             /\ \E xAxis \in {Float32Vector3_normalize(c.heap, c.ret)} :
                \E e \in {Float32Vector3_cross(xAxis.heap, zAxis.ret, xAxis.ret)} :
                   MagnitudeKnown(e.heap[e.ret].values)

InitCam ==
    /\ heap = <<>>
    /\ call = NoCall

LookAt ==
    /\ call.op = "none"
    /\ \E eye \in CameraEyes, target \in CameraTargets, up \in CameraUps :
       LookAtKnown(eye, target, up) /\
       \E a \in {Float32Vector3(heap, eye[1], eye[2], eye[3])} :
       \E b \in {Float32Vector3(a.heap, target[1], target[2], target[3])} :
       \E u \in {Float32Vector3(b.heap, up[1], up[2], up[3])} :
       \E m \in {Matrix4x4_lookAt(u.heap, a.ret, b.ret, u.ret)} :
          /\ heap' = m.heap
          /\ call' = Called("Matrix4x4.lookAt", 0, <<a.ret, b.ret, u.ret>>, m.ret)

\* the view volumes a client passes: left and bottom at most 0, right and top
\* at least 0, near and far from 0
Volumes ==
    {[top |-> Num(t), bottom |-> Num(-b), left |-> Num(-l), right |-> Num(r),
      near |-> Num(n), far |-> Num(f)] :
        t \in 0..MaxExtent, b \in 0..1, l \in 0..1, r \in 0..MaxExtent,
        n \in 0..MaxExtent, f \in 0..MaxExtent}

Orthographic ==
    /\ call.op = "none"
    /\ \E argsObject \in Volumes :
       \E m \in {Matrix4x4_orthographic(heap, argsObject)} :
          /\ heap' = m.heap
          /\ call' = Called("Matrix4x4.orthographic", 0, <<argsObject>>, m.ret)

Frustum ==
    /\ call.op = "none"
    /\ \E argsObject \in Volumes :
       \E m \in {Matrix4x4_frustum(heap, argsObject)} :
          /\ heap' = m.heap
          /\ call' = Called("Matrix4x4.frustum", 0, <<argsObject>>, m.ret)

\* half the fields of view: 0, atan(3/4), pi/2 - atan(3/4), 2 atan(3/4)
HalfFields == {<<Zero, Zero>>, <<Zero, One>>, <<One, Num(-1)>>, <<Zero, Two>>}

Views ==
    {[fovYRadian |-> ScaleAngle(Two, a), aspectRatio |-> Rat(w, 2), near |-> Num(n),
      far |-> Num(f)] :
        a \in HalfFields, w \in 0..(MaxExtent + 1), n \in 0..MaxExtent, f \in 1..MaxExtent}

Perspective ==
    /\ call.op = "none"
    /\ \E argsObject \in Views :
       \E m \in {Matrix4x4_perspective(heap, argsObject)} :
          /\ heap' = m.heap
          /\ call' = Called("Matrix4x4.perspective", 0, <<argsObject>>, m.ret)

\* the points a client projects: corners of the near and far faces of the
\* volume and points beside it
VolumePoints(argsObject) ==
    {<<x, y, z, One>> : x \in {argsObject.left, argsObject.right, Num(3)},
                        y \in {argsObject.bottom, argsObject.top},
                        z \in {Neg(argsObject.near), Neg(argsObject.far)}}

\* Matrix4x4.orthographic(argsObject).mulByVector4(point)
ProjectOrthographic ==
    /\ call.op = "none"
    /\ \E argsObject \in Volumes :
       \E point \in VolumePoints(argsObject) :
       \E m \in {Matrix4x4_orthographic(heap, argsObject)} :
       \E v \in {Float32Vector4(m.heap, point[1], point[2], point[3], point[4])} :
       \E p \in {Matrix4x4_mulByVector4(v.heap, m.ret, v.ret)} :
          /\ heap' = p.heap
          /\ call' = Called("projectOrthographic", m.ret, <<argsObject, point>>, p.ret)

\* Matrix4x4.frustum(argsObject).mulByVector4(point).hom2cart()
ProjectFrustum ==
    /\ call.op = "none"
    /\ \E argsObject \in Volumes :
       \E point \in VolumePoints(argsObject) :
       \E m \in {Matrix4x4_frustum(heap, argsObject)} :
       \E v \in {Float32Vector4(m.heap, point[1], point[2], point[3], point[4])} :
       \E p \in {Matrix4x4_mulByVector4(v.heap, m.ret, v.ret)} :
       \E c \in {Float32Vector4_hom2cart(p.heap, p.ret)} :
          /\ heap' = c.heap
          /\ call' = Called("projectFrustum", p.ret, <<argsObject, point>>, c.ret)

\* homogeneous coordinates a client divides: the last one 0 or not
HomogeneousPoints ==
    {<<Num(x), Num(y), Num(z)>> : x \in {-3, 0, 2}, y \in {0, 2}, z \in {0, MaxExtent}}
    \cup {<<Num(x), Num(y), Num(z), Num(w)>> :
               x \in {-3, 0, 2}, y \in {0, 2}, z \in {0, 2}, w \in {0, MaxExtent}}

\* new Float32Vector3(x, y, z).hom2cart() and new Float32Vector4(x, y, z, w).hom2cart()
HomogeneousDivide ==
    /\ call.op = "none"
    /\ \E c \in HomogeneousPoints :
       \E v \in {IF Len(c) = 3 THEN Float32Vector3(heap, c[1], c[2], c[3])
                  ELSE Float32Vector4(heap, c[1], c[2], c[3], c[4])} :
       \E p \in {IF Len(c) = 3 THEN Float32Vector3_hom2cart(v.heap, v.ret)
                  ELSE Float32Vector4_hom2cart(v.heap, v.ret)} :
          /\ heap' = p.heap
          /\ call' = Called(IF Len(c) = 3 THEN "Float32Vector3.hom2cart"
                            ELSE "Float32Vector4.hom2cart", v.ret, <<>>, p.ret)

\* after v = Matrix4x4.lookAt(eye, target, up):
\* v.mulByVector4(new Float32Vector4(eye.x, eye.y, eye.z, 1)) and
\* v.mulByVector4(new Float32Vector4(target.x, target.y, target.z, 1))
ViewPoints ==
    /\ call.op = "Matrix4x4.lookAt"
    /\ \E eye \in {heap[call.args[1]].values}, target \in {heap[call.args[2]].values} :
       \E e \in {Float32Vector4(heap, eye[1], eye[2], eye[3], One)} :
       \E t \in {Float32Vector4(e.heap, target[1], target[2], target[3], One)} :
       \E p \in {Matrix4x4_mulByVector4(t.heap, call.ret, e.ret)} :
       \E q \in {Matrix4x4_mulByVector4(p.heap, call.ret, t.ret)} :
          /\ heap' = q.heap
          /\ call' = Called("viewPoints", call.ret, <<call.args[1], call.args[2], call.args[3], p.ret>>, q.ret)

NextCam ==
    \/ LookAt
    \/ Orthographic
    \/ Frustum
    \/ Perspective
    \/ ProjectOrthographic
    \/ ProjectFrustum
    \/ HomogeneousDivide
    \/ ViewPoints

SpecCam == InitCam /\ [][NextCam]_vars

---------------------------------------------------------------------------
(* Properties of the projective transforms (SpecProj)                      *)

\* twice the signed area of the triangle of corners i, j, k of q
Area2(q, i, j, k) ==
    (q[2 * j - 1] - q[2 * i - 1]) * (q[2 * k] - q[2 * i])
        - (q[2 * k - 1] - q[2 * i - 1]) * (q[2 * j] - q[2 * i])

\* the four determinants d123, d124, d134, d234 of q
Dets(q) == <<Area2(q, 1, 2, 3), Area2(q, 1, 2, 4), Area2(q, 1, 3, 4), Area2(q, 2, 3, 4)>>

\* convex and non-degenerate: the four determinants have the same non-zero sign
Convex(q) ==
    \/ \A i \in 1..4 : Dets(q)[i] > 0
    \/ \A i \in 1..4 : Dets(q)[i] < 0

\* corner 3 is corner 2 + corner 4 - corner 1: the transform is affine
Parallelogram(q) ==
    /\ q[5] - q[3] = q[7] - q[1]
    /\ q[6] - q[4] = q[8] - q[2]

\* corner i of the unit square: (0,0), (1,0), (1,1), (0,1)
UnitCorner(i) ==
    <<IF i \in {2, 3} THEN One ELSE Zero, IF i \in {3, 4} THEN One ELSE Zero>>

\* corner i of the quadrilateral q
QuadCorner(q, i) == <<Num(q[2 * i - 1]), Num(q[2 * i])>>

\* the values of the instance the last call returned
Result == heap[call.ret].values

\* C1: for a convex, non-degenerate quadrilateral and a point (x, y, 1) of the
\* unit square, the inverse transform applied to the forward transform of the
\* point, divided by its last component, is (x, y) again.
C1_RoundTrip ==
    (call.op = "roundTrip" /\ Convex(call.args[1])) => Result = call.args[2]

\* C2: for a convex, non-degenerate quadrilateral, projectiveTransform maps
\* corner i of the unit square to corner i of the quadrilateral, i = 1..4.
C2_ForwardCorners ==
    \A i \in 1..4 :
        (call.op = "forward" /\ Convex(call.args[1]) /\ call.args[2] = UnitCorner(i))
            => Result = QuadCorner(call.args[1], i)

\* C2 witness: corner (1,1) was mapped to (x3, y3) by a transform that is not
\* affine.
C2_Witness ==
    /\ call.op = "forward"
    /\ Convex(call.args[1])
    /\ ~Parallelogram(call.args[1])
    /\ call.args[2] = UnitCorner(3)
    /\ Result = QuadCorner(call.args[1], 3)

\* C3: for a convex, non-degenerate quadrilateral, projectiveInvTransform maps
\* corner i of the quadrilateral to corner i of the unit square, i = 1..4.
C3_InverseCorners ==
    (call.op = "inverse" /\ Convex(call.args[1])) => Result = UnitCorner(call.args[2])

---------------------------------------------------------------------------
(* Claims about the matrix classes (SpecMat) *)

\* the dimension of a matrix class
Dim(cls) == CASE cls = "Matrix2x2" -> 2 [] cls = "Matrix3x3" -> 3 [] cls = "Matrix4x4" -> 4

MatrixClasses == {"Matrix2x2", "Matrix3x3", "Matrix4x4"}

\* the values of the object a method returned
Values(r) == r.heap[r.ret].values

\* sum over k in 0..last of A[k*n + row] * B[col*n + k], indices from 0
RECURSIVE SumOverK(_, _, _, _, _, _)
SumOverK(n, A, B, row, col, last) ==
    LET term == Mul(A[last * n + row + 1], B[col * n + last + 1])
    IN  IF last = 0 THEN term ELSE Add(SumOverK(n, A, B, row, col, last - 1), term)

\* the standard product of two n x n matrices in column-major storage
StdProduct(n, A, B) ==
    [i \in 1..(n * n) |-> SumOverK(n, A, B, (i - 1) % n, (i - 1) \div n, n - 1)]

\* sum over col in 0..last of A[col*n + row] * v[col], indices from 0
RECURSIVE SumOverCol(_, _, _, _, _)
SumOverCol(n, A, v, row, last) ==
    LET term == Mul(A[last * n + row + 1], v[last + 1])
    IN  IF last = 0 THEN term ELSE Add(SumOverCol(n, A, v, row, last - 1), term)

ThisValues == heap[call.this].values

ArgValues == heap[call.args[1]].values

ThisDim == Dim(heap[call.this].cls)

\* C4: mulByMatrix3x3 and mulByMatrix4x4 return the standard product this x other
\* on column-major storage: entry col*n + row of the result is the sum over k of
\* this[k*n + row] * other[col*n + k], and the result has n*n values.
C4_StandardProduct ==
    call.op \in {"Matrix3x3.mulByMatrix3x3", "Matrix4x4.mulByMatrix4x4"} =>
        /\ Len(Result) = ThisDim * ThisDim
        /\ \A row \in 0..(ThisDim - 1), col \in 0..(ThisDim - 1) :
              Result[col * ThisDim + row + 1]
                 = SumOverK(ThisDim, ThisValues, ArgValues, row, col, ThisDim - 1)

\* a product of two 4 x 4 matrices that do not commute
C4_Witness ==
    /\ call.op = "Matrix4x4.mulByMatrix4x4"
    /\ Result = StdProduct(4, ThisValues, ArgValues)
    /\ Result # StdProduct(4, ArgValues, ThisValues)
    /\ call.this # call.args[1]

\* C5: mulByVector3 and mulByVector4 return the product of the matrix and the
\* column vector: component row is the sum over col of A[col*n + row] * v[col].
C5_MatrixVectorProduct ==
    call.op \in {"Matrix3x3.mulByVector3", "Matrix4x4.mulByVector4"} =>
        /\ Len(Result) = ThisDim
        /\ \A row \in 0..(ThisDim - 1) :
              Result[row + 1] = SumOverCol(ThisDim, ThisValues, ArgValues, row, ThisDim - 1)

\* a product of a matrix that is not symmetric and a vector that is not zero
C5_Witness ==
    /\ call.op = "Matrix3x3.mulByVector3"
    /\ ThisValues[2] # ThisValues[4]
    /\ ArgValues # <<Zero, Zero, Zero>>
    /\ Result[1] = SumOverCol(3, ThisValues, ArgValues, 0, 2)

\* C6: identity().mulByMatrixNxN(M) and M.mulByMatrixNxN(identity()) have the
\* values of M, for Matrix3x3 and Matrix4x4.
C6_IdentityLaws ==
    /\ call.op \in {"Matrix3x3.leftIdentity", "Matrix4x4.leftIdentity"} => Result = ArgValues
    /\ call.op \in {"Matrix3x3.rightIdentity", "Matrix4x4.rightIdentity"} => Result = ThisValues

\* the identity on the right of a 4 x 4 matrix whose last column is not zero
C6_Witness ==
    /\ call.op = "Matrix4x4.rightIdentity"
    /\ \E i \in 13..16 : ThisValues[i] # Zero
    /\ Result = ThisValues

\* the matrix a composition helper multiplies by
Factor ==
    LET t == call.args[1]
    IN  CASE call.op = "Matrix3x3.translate" -> Values(Matrix3x3_translation(heap, t[1], t[2]))
          [] call.op = "Matrix3x3.scale" -> Values(Matrix3x3_scaling(heap, t[1], t[2]))
          [] call.op = "Matrix3x3.rotate" -> Values(Matrix3x3_rotation(heap, t))
          [] call.op = "Matrix4x4.translate" -> Values(Matrix4x4_translation(heap, t[1], t[2], t[3]))
          [] call.op = "Matrix4x4.scale" -> Values(Matrix4x4_scaling(heap, t[1], t[2], t[3]))
          [] call.op = "Matrix4x4.rotateX" -> Values(Matrix4x4_rotationX(heap, t))
          [] call.op = "Matrix4x4.rotateY" -> Values(Matrix4x4_rotationY(heap, t))
          [] call.op = "Matrix4x4.rotateZ" -> Values(Matrix4x4_rotationZ(heap, t))
          [] call.op = "Matrix4x4.rotateAround" ->
                Values(Matrix4x4_rotationAround(heap, t, call.args[2]))

ComposeOps ==
    {"Matrix3x3.translate", "Matrix3x3.scale", "Matrix3x3.rotate",
     "Matrix4x4.translate", "Matrix4x4.scale", "Matrix4x4.rotateX", "Matrix4x4.rotateY",
     "Matrix4x4.rotateZ", "Matrix4x4.rotateAround"}

\* C7: translate, scale, rotate, rotateX, rotateY, rotateZ and rotateAround return
\* the product of the receiver, as the left factor, and the matrix of the
\* translation, scaling or rotation, as the right factor.
C7_RightMultiplication ==
    call.op \in ComposeOps => Result = StdProduct(ThisDim, ThisValues, Factor)

\* a translate where the two orders of the product differ
C7_Witness ==
    /\ call.op = "Matrix4x4.translate"
    /\ Result = StdProduct(4, ThisValues, Factor)
    /\ Result # StdProduct(4, Factor, ThisValues)

\* C8: every matrix has n*n values for its dimension n; a constructor stores
\* its arguments in the order given, column after column; index col*n + row
\* holds entry (row, col): the identity has its ones where row = col, and a
\* translation has its offsets in rows 0.. of the last column.
C8_ColumnMajorLayout ==
    /\ \A r \in 1..Len(heap) :
          heap[r].cls \in MatrixClasses => Len(heap[r].values) = Dim(heap[r].cls) * Dim(heap[r].cls)
    /\ call.op \in {"Matrix2x2.new", "Matrix3x3.new", "Matrix4x4.new"} => Result = call.args[1]
    /\ call.op \in {"Matrix2x2.identity", "Matrix3x3.identity", "Matrix4x4.identity"} =>
          LET n == Dim(heap[call.ret].cls)
          IN  \A row \in 0..(n - 1), col \in 0..(n - 1) :
                 Result[col * n + row + 1] = IF row = col THEN One ELSE Zero
    /\ call.op \in {"Matrix3x3.translation", "Matrix4x4.translation"} =>
          LET n == Dim(heap[call.ret].cls)
          IN  \A row \in 0..(n - 2) : Result[(n - 1) * n + row + 1] = call.args[1][row + 1]

\* a 4 x 4 matrix built from sixteen numbers, not symmetric
C8_Witness ==
    /\ call.op = "Matrix4x4.new"
    /\ Len(Result) = 16
    /\ Result = call.args[1]
    /\ Result[2] # Result[5]

---------------------------------------------------------------------------
(* Claims about vectors and quaternions (SpecArith) *)

NormalizeOps == {"Float32Vector3.normalize", "Quaternion.normalize"}

\* the operations of the vectors and the quaternion that compute a value
ArithmeticOps ==
    {"Float32Vector2.add", "Float32Vector2.sub", "Float32Vector2.mulByScalar",
     "Float32Vector3.add", "Float32Vector3.sub", "Float32Vector3.mulByScalar",
     "Float32Vector3.dot", "Float32Vector3.cross", "Float32Vector3.normalize",
     "Float32Vector3.xy", "Float32Vector3.hom2cart",
     "Float32Vector4.add", "Float32Vector4.sub", "Float32Vector4.mulByScalar",
     "Float32Vector4.xyz", "Float32Vector4.hom2cart", "VectorBase.magnitude",
     "Quaternion.add", "Quaternion.mulByScalar", "Quaternion.dot", "Quaternion.normalize",
     "Quaternion.slerp", "Quaternion.toRotationMatrix4"}

\* the operations whose first argument is an instance
BinaryOps ==
    {"Float32Vector2.add", "Float32Vector2.sub", "Float32Vector3.add", "Float32Vector3.sub",
     "Float32Vector3.dot", "Float32Vector3.cross", "Float32Vector4.add", "Float32Vector4.sub",
     "Quaternion.add", "Quaternion.dot", "Quaternion.slerp"}

\* the receiver and the argument of a call
Operands(c) == {c.this} \cup (IF c.op \in BinaryOps THEN {c.args[1]} ELSE {})

AllZero(vals) == \A i \in 1..Len(vals) : vals[i] = Zero

C10_OperandsUnchanged ==
    [][call'.op \in ArithmeticOps =>
          \A r \in Operands(call') : heap'[r] = heap[r]]_vars

\* v.add(v) of a vector that is not zero: a new vector, v as it was
C10_Witness ==
    /\ call.op = "Float32Vector3.add"
    /\ call.args[1] = call.this
    /\ call.ret # call.this
    /\ ~AllZero(heap[call.this].values)
    /\ heap[call.ret].values = [i \in 1..3 |-> Mul(Two, heap[call.this].values[i])]

\* the calls that, by the claim, return a new instance
NewValueOps ==
    {"Float32Vector2.add", "Float32Vector2.sub", "Float32Vector2.mulByScalar",
     "Float32Vector3.add", "Float32Vector3.sub", "Float32Vector3.mulByScalar",
     "Float32Vector3.cross", "Float32Vector3.normalize",
     "Float32Vector4.add", "Float32Vector4.sub", "Float32Vector4.mulByScalar",
     "Quaternion.add", "Quaternion.mulByScalar", "Quaternion.normalize"}

SetOps == {"Float32Vector2.set", "Float32Vector3.set", "Float32Vector4.set", "Quaternion.set"}

\* C11: add, sub, mulByScalar, cross and normalize return an instance that did
\* not exist before the call, and a component setter applied to the instance
\* one of these calls returned leaves the values of the call's receiver and
\* argument as they were.
C11_InstanceIndependence ==
    [][/\ call'.op \in NewValueOps => call'.ret > Len(heap)
       /\ (call.op \in NewValueOps /\ call'.op \in SetOps) =>
             \A r \in Operands(call) : heap'[r] = heap[r]]_vars

\* the values of the instance an operation returned
ValuesOf(p) == p.heap[p.ret].values

Finite(vals) == \A i \in 1..Len(vals) : IsFinite(vals[i])

\* C13: the quaternion a slerp call returned has the components that slerp
\* returns for the same receiver, argument and t under every way of passing the
\* option: chooseShorterAngle true, false, and the argument left out.
C13_OptionInert ==
    call.op = "Quaternion.slerp" =>
        \A options \in OptionsGiven :
            Result = ValuesOf(Quaternion_slerp(heap, call.this, call.args[1], call.args[2],
                                               options))

\* slerp with { chooseShorterAngle: false } between quaternions whose dot
\* product is negative, with a finite result
C13_Witness ==
    /\ call.op = "Quaternion.slerp"
    /\ call.args[3] = <<FALSE>>
    /\ Less(Quaternion_dot(heap, call.this, call.args[1]).ret, Zero)
    /\ Finite(Result)

\* C14: in every slerp call the value passed to Math.acos is not negative and
\* the argument `other` holds after the call the values it held before, and
\* when the dot product of the receiver and `other` is not 0 the result of
\* q.slerp(other, t) has the components of q.slerp(other.mulByScalar(-1), t).
C14_ShorterArc ==
    [][call'.op = "Quaternion.slerp" =>
          /\ ~Less(Quaternion_slerp_dotProd(heap, call'.this, call'.args[1]), Zero)
          /\ heap'[call'.args[1]] = heap[call'.args[1]]
          /\ (/\ call'.args[3] = <<>>
              /\ ~IsZero(Quaternion_dot(heap, call'.this, call'.args[1]).ret)) =>
                \E negated \in {Quaternion_mulByScalar(heap, call'.args[1], Num(-1))} :
                   heap'[call'.ret].values =
                      ValuesOf(Quaternion_slerp(negated.heap, call'.this, negated.ret,
                                                call'.args[2], <<>>))]_vars

\* slerp halfway between two different unit quaternions whose dot product is
\* negative, with a finite result
C14_Witness ==
    /\ call.op = "Quaternion.slerp"
    /\ call.args[2] = Half
    /\ Less(Quaternion_dot(heap, call.this, call.args[1]).ret, Zero)
    /\ SumSq(heap[call.this].values) = One
    /\ SumSq(heap[call.args[1]].values) = One
    /\ Finite(Result)

NegAll(vals) == [i \in 1..Len(vals) |-> Neg(vals[i])]

\* after a slerp call between unit quaternions: at t = 0 the result is the
\* receiver, at t = 1 it is `other`, negated when the dot product is negative
AtEndpoints ==
    LET q1 == heap[call.this].values
        q2 == heap[call.args[1]].values
        dot == Quaternion_dot(heap, call.this, call.args[1]).ret
    IN  /\ call.args[2] = Zero => Result = q1
        /\ call.args[2] = One => Result = IF Less(dot, Zero) THEN NegAll(q2) ELSE q2

UnitOperands ==
    /\ call.op = "Quaternion.slerp"
    /\ SumSq(heap[call.this].values) = One
    /\ SumSq(heap[call.args[1]].values) = One

\* C15 as stated: slerp between any two unit quaternions is the receiver at
\* t = 0 and plus or minus `other` at t = 1.
C15_SlerpEndpoints == UnitOperands => AtEndpoints

\* C15, amended: slerp between two unit quaternions whose dot product is
\* neither 1 nor -1 is the receiver at t = 0 and, at t = 1, `other` when the dot
\* product is not negative and -other when it is.
C15_SlerpEndpointsApart ==
    (UnitOperands /\ Quaternion_slerp_dotProd(heap, call.this, call.args[1]) # One)
        => AtEndpoints

\* slerp at t = 1 between unit quaternions with a negative dot product other
\* than -1: the result is -other
C15_Witness ==
    /\ UnitOperands
    /\ call.args[2] = One
    /\ Less(Quaternion_dot(heap, call.this, call.args[1]).ret, Zero)
    /\ Quaternion_slerp_dotProd(heap, call.this, call.args[1]) # One
    /\ Result = NegAll(heap[call.args[1]].values)
    /\ Result # heap[call.args[1]].values

\* 2 * a
Twice(a) == Add(a, a)

\* the rotation matrix of the quaternion (x, y, z, w), column after column
RotationValues(q) ==
    LET x == q[1]
        y == q[2]
        z == q[3]
        w == q[4]
        xx == Mul(x, x)
        yy == Mul(y, y)
        zz == Mul(z, z)
        xy == Mul(x, y)
        xz == Mul(x, z)
        yz == Mul(y, z)
        wx == Mul(w, x)
        wy == Mul(w, y)
        wz == Mul(w, z)
    IN  << Sub(One, Twice(Add(yy, zz))), Twice(Add(xy, wz)), Twice(Sub(xz, wy)), Zero,
           Twice(Sub(xy, wz)), Sub(One, Twice(Add(xx, zz))), Twice(Add(yz, wx)), Zero,
           Twice(Add(xz, wy)), Twice(Sub(yz, wx)), Sub(One, Twice(Add(xx, yy))), Zero,
           Zero, Zero, Zero, One >>

\* C16: toRotationMatrix4 of a quaternion (x, y, z, w), of whatever magnitude,
\* returns a Matrix4x4 whose values are, column after column,
\* 1-2yy-2zz, 2xy+2wz, 2xz-2wy, 0, 2xy-2wz, 1-2xx-2zz, 2yz+2wx, 0,
\* 2xz+2wy, 2yz-2wx, 1-2xx-2yy, 0, 0, 0, 0, 1, computed from the components as
\* they are.
C16_RotationMatrixFormula ==
    call.op = "Quaternion.toRotationMatrix4" =>
        /\ heap[call.ret].cls = "Matrix4x4"
        /\ Result = RotationValues(heap[call.this].values)

\* toRotationMatrix4 of a quaternion that is not a unit quaternion and has four
\* different non-zero components
C16_Witness ==
    /\ call.op = "Quaternion.toRotationMatrix4"
    /\ SumSq(heap[call.this].values) \notin {Zero, One}
    /\ Cardinality({heap[call.this].values[i] : i \in 1..4} \cup {Zero}) = 5
    /\ Finite(Result)

---------------------------------------------------------------------------
(* Claims about sequences of matrix operations (SpecChain) *)

\* the operations that return a matrix computed from their receiver
TransformOps ==
    {"Matrix3x3.mulByMatrix3x3", "Matrix3x3.translate", "Matrix3x3.scale", "Matrix3x3.rotate",
     "Matrix4x4.mulByMatrix4x4", "Matrix4x4.translate", "Matrix4x4.scale", "Matrix4x4.rotateX",
     "Matrix4x4.rotateY", "Matrix4x4.rotateZ", "Matrix4x4.rotateAround"}

\* C12: no step of a sequence of factories, products, transforms and reads of
\* `values` changes a matrix that exists, so a matrix keeps the values it was
\* constructed with, and every transform returns a matrix that did not exist
\* before the call.
C12_MatricesImmutable ==
    [][/\ \A r \in 1..Len(heap) : heap[r].cls \in MatrixClasses => heap'[r] = heap[r]
       /\ call'.op \in TransformOps => call'.ret > Len(heap)]_vars

\* a translate of a matrix that is itself the result of a product: a third
\* matrix, the receiver as it was
C12_Witness ==
    /\ call.op = "Matrix4x4.translate"
    /\ call.this > 1
    /\ call.ret > call.this
    /\ heap[call.ret].values # heap[call.this].values
    /\ \E a \in 1..Len(heap), b \in 1..Len(heap) :
          /\ heap[a].cls = "Matrix4x4" /\ heap[b].cls = "Matrix4x4"
          /\ a < call.this /\ b < call.this
          /\ heap[call.this].values = StdProduct(4, heap[a].values, heap[b].values)

---------------------------------------------------------------------------
(* Claims about rotations (SpecMat) *)

\* the Hamilton product of the quaternions p and q, components in the order
\* (x, y, z, w)
QuaternionProduct(p, q) ==
    << Add(Add(Mul(p[4], q[1]), Mul(p[1], q[4])), Sub(Mul(p[2], q[3]), Mul(p[3], q[2]))),
       Add(Add(Mul(p[4], q[2]), Mul(p[2], q[4])), Sub(Mul(p[3], q[1]), Mul(p[1], q[3]))),
       Add(Add(Mul(p[4], q[3]), Mul(p[3], q[4])), Sub(Mul(p[1], q[2]), Mul(p[2], q[1]))),
       Sub(Sub(Sub(Mul(p[4], q[4]), Mul(p[1], q[1])), Mul(p[2], q[2])), Mul(p[3], q[3])) >>

Conjugate(q) == << Neg(q[1]), Neg(q[2]), Neg(q[3]), q[4] >>

\* q * (v, 0) * conjugate(q)
Sandwich(q, v) == QuaternionProduct(QuaternionProduct(q, << v[1], v[2], v[3], Zero >>),
                                    Conjugate(q))

\* C17: when a unit quaternion q is turned into a matrix and the matrix is
\* multiplied by (v.x, v.y, v.z, 1), the x, y, z of the product are the vector
\* part of q * (v, 0) * conjugate(q) and its w is 1.
C17_QuaternionMatrixConsistency ==
    (call.op = "rotateVector" /\ SumSq(heap[call.this].values) = One) =>
        LET v == heap[call.args[1]].values
            rotated == Sandwich(heap[call.this].values, v)
        IN  Result = << rotated[1], rotated[2], rotated[3], One >>

\* a point off the axis rotated by the quaternion of a rotation, about an axis
\* that is not a coordinate axis, by an angle that is not a multiple of pi
C17_Witness ==
    /\ call.op = "rotateVector"
    /\ SumSq(heap[call.this].values) = One
    /\ \A i \in 1..4 : heap[call.this].values[i] # Zero
    /\ Finite(Result)
    /\ \A i \in 1..3 : Result[i] # heap[call.args[1]].values[i]

\* the image the claim gives for the unit vector number e under the rotation
\* about the axis number k, with s and c the sine and the cosine of the angle
RightHandedImage(k, e, s, c) ==
    CASE k = 1 -> << <<One, Zero, Zero>>, <<Zero, c, s>>, <<Zero, Neg(s), c>> >>[e]
      [] k = 2 -> << <<c, Zero, Neg(s)>>, <<Zero, One, Zero>>, <<s, Zero, c>> >>[e]
      [] k = 3 -> << <<c, s, Zero>>, <<Neg(s), c, Zero>>, <<Zero, Zero, One>> >>[e]

\* C18: rotationX(r), rotationY(r) and rotationZ(r) keep their axis and map
\* the other two unit vectors as right-handed rotations do ((0,1,0) to (0,c,s)
\* and (0,0,1) to (0,-s,c) for X; (0,0,1) to (s,0,c) and (1,0,0) to (c,0,-s)
\* for Y; (1,0,0) to (c,s,0) and (0,1,0) to (-s,c,0) for Z), and each has the
\* values of Matrix4x4.rotationAround of its unit axis by the same angle.
C18_RightHandedAxisRotations ==
    call.op = "rotateBasisVector" =>
        LET k == call.args[1]
            e == call.args[2]
            r == call.args[3]
            image == RightHandedImage(k, e, MathSin(r), MathCos(r))
        IN  /\ Result = << image[1], image[2], image[3], One >>
            /\ heap[call.this].values = heap[call.args[4]].values

\* rotationY by an angle whose sine and cosine are both non-zero and
\* different, applied to (0, 0, 1)
C18_Witness ==
    /\ call.op = "rotateBasisVector"
    /\ call.args[1] = 2
    /\ call.args[2] = 3
    /\ MathSin(call.args[3]) \notin {Zero, MathCos(call.args[3]), Neg(MathCos(call.args[3]))}
    /\ MathCos(call.args[3]) # Zero
    /\ Result = << MathSin(call.args[3]), Zero, MathCos(call.args[3]), One >>

---------------------------------------------------------------------------
(* Claims about the camera and the projections (SpecCam) *)

Difference(a, b) == << Sub(a[1], b[1]), Sub(a[2], b[2]), Sub(a[3], b[3]) >>

DotProduct(a, b) == Add(Add(Mul(a[1], b[1]), Mul(a[2], b[2])), Mul(a[3], b[3]))

CrossProduct(a, b) ==
    << Sub(Mul(a[2], b[3]), Mul(a[3], b[2])), Sub(Mul(a[3], b[1]), Mul(a[1], b[3])),
       Sub(Mul(a[1], b[2]), Mul(a[2], b[1])) >>

\* normalize: the vector over its length, and the vector itself when its
\* length is 0
Normalized(a) ==
    IF SumSq(a) = Zero THEN a
    ELSE << Div(a[1], Sqrt(SumSq(a))), Div(a[2], Sqrt(SumSq(a))), Div(a[3], Sqrt(SumSq(a))) >>

\* row i of the 4x4 matrix an operation returned
Row(i) == << Result[i], Result[i + 4], Result[i + 8], Result[i + 12] >>

\* C19: lookAt(eye, target, up) returns the matrix whose rows 1, 2, 3 are
\* xAxis, yAxis, zAxis followed by -dot(eye, xAxis), -dot(eye, yAxis),
\* -dot(eye, zAxis), and whose last row is (0, 0, 0, 1), where
\* zAxis = normalize(eye - target), xAxis = normalize(cross(up, zAxis)) and
\* yAxis = normalize(cross(zAxis, xAxis)).
C19_LookAt ==
    call.op = "Matrix4x4.lookAt" =>
        LET eye == heap[call.args[1]].values
            target == heap[call.args[2]].values
            up == heap[call.args[3]].values
            zAxis == Normalized(Difference(eye, target))
            xAxis == Normalized(CrossProduct(up, zAxis))
            yAxis == Normalized(CrossProduct(zAxis, xAxis))
        IN  /\ Row(1) = << xAxis[1], xAxis[2], xAxis[3], Neg(DotProduct(eye, xAxis)) >>
            /\ Row(2) = << yAxis[1], yAxis[2], yAxis[3], Neg(DotProduct(eye, yAxis)) >>
            /\ Row(3) = << zAxis[1], zAxis[2], zAxis[3], Neg(DotProduct(eye, zAxis)) >>
            /\ Row(4) = << Zero, Zero, Zero, One >>

\* lookAt from an eye away from the origin along a line of sight that is not
\* a coordinate axis: the rotation part is not symmetric
C19_Witness ==
    /\ call.op = "Matrix4x4.lookAt"
    /\ Finite(Result)
    /\ Result[2] # Result[5]
    /\ Result[3] # Result[9]
    /\ Result[13] # Zero
    /\ Result[15] # Zero

\* near * tan(fovYRadian / 2)
HalfHeight(argsObject) ==
    Mul(argsObject.near, MathTan(ScaleAngle(Half, argsObject.fovYRadian)))

\* the symmetric view volume of a perspective call
SymmetricVolume(argsObject) ==
    [top |-> HalfHeight(argsObject), bottom |-> Neg(HalfHeight(argsObject)),
     left |-> Neg(Mul(argsObject.aspectRatio, HalfHeight(argsObject))),
     right |-> Mul(argsObject.aspectRatio, HalfHeight(argsObject)),
     near |-> argsObject.near, far |-> argsObject.far]

SameAsFrustum ==
    Result = ValuesOf(Matrix4x4_frustum(heap, SymmetricVolume(call.args[1])))

NonZero(a) == IsFinite(a) /\ a # Zero

\* C20 as stated: perspective has the values of frustum on the symmetric
\* volume of half height T = near * tan(fovYRadian / 2), and values[8] and
\* values[9] are 0, for all arguments.
C20_PerspectiveDelegates ==
    call.op = "Matrix4x4.perspective" =>
        /\ SameAsFrustum
        /\ Result[9] = Zero
        /\ Result[10] = Zero

\* C20, amended: perspective has the values of frustum on the symmetric volume
\* of half height T = near * tan(fovYRadian / 2) for all arguments; values[9]
\* is 0 when T is finite and not 0, and values[8] is 0 when aspectRatio * T is
\* finite and not 0.
C20_PerspectiveDelegatesNonDegenerate ==
    call.op = "Matrix4x4.perspective" =>
        /\ SameAsFrustum
        /\ NonZero(Mul(call.args[1].aspectRatio, HalfHeight(call.args[1]))) =>
              Result[9] = Zero
        /\ NonZero(HalfHeight(call.args[1])) => Result[10] = Zero

\* perspective with a field of view, an aspect ratio other than 1 and
\* near < far: a finite matrix with values[8] = values[9] = 0
C20_Witness ==
    /\ call.op = "Matrix4x4.perspective"
    /\ NonZero(HalfHeight(call.args[1]))
    /\ call.args[1].aspectRatio \notin {Zero, One}
    /\ Less(call.args[1].near, call.args[1].far)
    /\ Finite(Result)
    /\ Result[1] # Result[6]
    /\ Result[9] = Zero
    /\ Result[10] = Zero

\* the view volume of a projection call has width, height and depth
ProperVolume(a) == a.right # a.left /\ a.top # a.bottom /\ a.far # a.near

\* after orthographic(a).mulByVector4(point): the near lower left corner goes
\* to (-1, -1, -1, 1) and the far upper right corner to (1, 1, 1, 1)
OrthographicCorners ==
    LET a == call.args[1]
        point == call.args[2]
    IN  /\ point = <<a.left, a.bottom, Neg(a.near), One>> =>
              Result = <<Num(-1), Num(-1), Num(-1), One>>
        /\ point = <<a.right, a.top, Neg(a.far), One>> => Result = <<One, One, One, One>>

\* after frustum(a).mulByVector4(point).hom2cart(): the corners of the near
\* face go to (-1, -1, -1) and (1, 1, -1), and w' = -z
FrustumNearFace ==
    LET a == call.args[1]
        point == call.args[2]
    IN  /\ point = <<a.left, a.bottom, Neg(a.near), One>> =>
              Result = <<Num(-1), Num(-1), Num(-1)>>
        /\ point = <<a.right, a.top, Neg(a.near), One>> => Result = <<One, One, Num(-1)>>
        /\ heap[call.this].values[4] = Neg(point[3])

\* C21 as stated: for a volume with width, height and depth (and near not 0
\* for frustum) orthographic maps the near lower left corner to (-1,-1,-1,1)
\* and the far upper right corner to (1,1,1,1); frustum followed by hom2cart
\* maps the near corners to (-1,-1,-1) and (1,1,-1) and every point with
\* z = -far to clip z = 1, with w' = -z.
C21_ClipSpace ==
    /\ (call.op = "projectOrthographic" /\ ProperVolume(call.args[1])) => OrthographicCorners
    /\ (call.op = "projectFrustum" /\ ProperVolume(call.args[1])
           /\ call.args[1].near # Zero) =>
          /\ FrustumNearFace
          /\ call.args[2][3] = Neg(call.args[1].far) => Result[3] = One

\* C21, amended: the same, the points with z = -far going to clip z = 1 when
\* far is not 0.
C21_ClipSpaceFarNotZero ==
    /\ (call.op = "projectOrthographic" /\ ProperVolume(call.args[1])) => OrthographicCorners
    /\ (call.op = "projectFrustum" /\ ProperVolume(call.args[1])
           /\ call.args[1].near # Zero) =>
          /\ FrustumNearFace
          /\ (call.args[2][3] = Neg(call.args[1].far) /\ call.args[1].far # Zero) =>
                Result[3] = One

\* a point of the far face, off the corners, of an asymmetric frustum with
\* 0 < near < far, projected to clip z = 1
C21_Witness ==
    /\ call.op = "projectFrustum"
    /\ ProperVolume(call.args[1])
    /\ Less(Zero, call.args[1].near)
    /\ Less(call.args[1].near, call.args[1].far)
    /\ call.args[1].right # Neg(call.args[1].left)
    /\ call.args[2][1] = Num(3)
    /\ call.args[2][3] = Neg(call.args[1].far)
    /\ Finite(Result)
    /\ Result[3] = One

---------------------------------------------------------------------------
(* Claims about the affine forms and the products (SpecMat) *)

\* C22: translation(tx, ty, tz) times (x, y, z, 1) is (x+tx, y+ty, z+tz, 1)
\* and scaling(sx, sy, sz) times (x, y, z, 1) is (sx*x, sy*y, sz*z, 1); for
\* Matrix3x3, translation(tx, ty) times (x, y, 1) is (x+tx, y+ty, 1) and
\* scaling(sx, sy) times (x, y, 1) is (sx*x, sy*y, 1).
C22_AffineForms ==
    /\ call.op = "transformPoint4x4" =>
          LET t == call.args[2]
              v == heap[call.args[3]].values
          IN  IF call.args[1] = "translation"
              THEN Result = << Add(v[1], t[1]), Add(v[2], t[2]), Add(v[3], t[3]), One >>
              ELSE Result = << Mul(t[1], v[1]), Mul(t[2], v[2]), Mul(t[3], v[3]), One >>
    /\ call.op = "transformPoint3x3" =>
          LET t == call.args[2]
              v == heap[call.args[3]].values
          IN  IF call.args[1] = "translation"
              THEN Result = << Add(v[1], t[1]), Add(v[2], t[2]), One >>
              ELSE Result = << Mul(t[1], v[1]), Mul(t[2], v[2]), One >>

\* a Matrix3x3 translation by a vector with two non-zero components, applied
\* to a point off the origin
C22_Witness ==
    /\ call.op = "transformPoint3x3"
    /\ call.args[1] = "translation"
    /\ call.args[2][1] # Zero
    /\ call.args[2][2] # Zero
    /\ heap[call.args[3]].values[1] # Zero
    /\ Result[1] = Add(heap[call.args[3]].values[1], call.args[2][1])
    /\ Result # heap[call.args[3]].values

---------------------------------------------------------------------------
(* Further claims about vectors and quaternions (SpecArith) *)

\* C23: a.cross(b) is (a.y*b.z - a.z*b.y, a.z*b.x - a.x*b.z, a.x*b.y - a.y*b.x)
\* and the negation of b.cross(a); when a and b are finite, a.dot(a.cross(b))
\* and b.dot(a.cross(b)) are 0.
C23_RightHandedCross ==
    call.op = "Float32Vector3.cross" =>
        LET a == heap[call.this].values
            b == heap[call.args[1]].values
        IN  /\ Result = << Sub(Mul(a[2], b[3]), Mul(a[3], b[2])),
                           Sub(Mul(a[3], b[1]), Mul(a[1], b[3])),
                           Sub(Mul(a[1], b[2]), Mul(a[2], b[1])) >>
            /\ Result = NegAll(ValuesOf(Float32Vector3_cross(heap, call.args[1], call.this)))
            /\ (Finite(a) /\ Finite(b)) =>
                  /\ Float32Vector3_dot(heap, call.this, call.ret).ret = Zero
                  /\ Float32Vector3_dot(heap, call.args[1], call.ret).ret = Zero

\* the cross product of two vectors that are not parallel, with three
\* non-zero components
C23_Witness ==
    /\ call.op = "Float32Vector3.cross"
    /\ Finite(Result)
    /\ \A i \in 1..3 : Result[i] # Zero
    /\ Float32Vector3_dot(heap, call.this, call.ret).ret = Zero

\* the values over their magnitude
Scaled(vals) == [i \in 1..Len(vals) |-> Div(vals[i], Sqrt(SumSq(vals)))]

\* normalize of the class of the instance r
NormalizeOf(r) ==
    IF heap[r].cls = "Quaternion" THEN Quaternion_normalize(heap, r)
    ELSE Float32Vector3_normalize(heap, r)

\* C24: normalize of a Float32Vector3 or a Quaternion with finite components,
\* not all 0, returns another instance whose components are the receiver's
\* over its magnitude; the magnitude of the result is 1 and normalize of the
\* result has the same components.
C24_NormalizeNonZero ==
    (/\ call.op \in NormalizeOps
     /\ Finite(heap[call.this].values)
     /\ SumSq(heap[call.this].values) # Zero) =>
        /\ call.ret # call.this
        /\ Result = Scaled(heap[call.this].values)
        /\ SumSq(Result) = One
        /\ ValuesOf(NormalizeOf(call.ret)) = Result

\* normalize of a vector whose magnitude is neither 0 nor 1
C24_Witness ==
    /\ call.op = "Float32Vector3.normalize"
    /\ Finite(heap[call.this].values)
    /\ SumSq(heap[call.this].values) \notin {Zero, One}
    /\ Result # heap[call.this].values
    /\ SumSq(Result) = One

\* C25: when the dot product slerp hands to Math.acos is exactly 1, every
\* component of the quaternion slerp returns is NaN, and the quaternion
\* returned is neither the receiver nor the argument.
C25_SlerpNoGuard ==
    (/\ call.op = "Quaternion.slerp"
     /\ Quaternion_slerp_dotProd(heap, call.this, call.args[1]) = One) =>
        /\ \A i \in 1..4 : IsNaN(Result[i])
        /\ call.ret \notin {call.this, call.args[1]}

\* q.slerp(-q, 1/2) for a unit q with non-zero and zero components
C25_Witness ==
    /\ call.op = "Quaternion.slerp"
    /\ call.this # call.args[1]
    /\ heap[call.args[1]].values = NegAll(heap[call.this].values)
    /\ SumSq(heap[call.this].values) = One
    /\ call.args[2] = Half
    /\ \A i \in 1..4 : IsNaN(Result[i])

\* the entries number i and j of the matrix returned are Infinity or NaN
Unbounded(i, j) == ~IsFinite(Result[i]) /\ ~IsFinite(Result[j])

\* C26: orthographic and frustum of a volume without width, height or depth
\* return a matrix whose entries divided by that extent are Infinity or NaN
\* (values[0] and values[12] or values[8] for the width, values[5] and
\* values[13] or values[9] for the height, values[10] and values[14] for the
\* depth), and hom2cart of a vector whose last component is 0 returns a vector
\* whose components are all Infinity or NaN.
C26_NoValidation ==
    /\ call.op = "Matrix4x4.orthographic" =>
          /\ heap[call.ret].cls = "Matrix4x4"
          /\ call.args[1].right = call.args[1].left => Unbounded(1, 13)
          /\ call.args[1].top = call.args[1].bottom => Unbounded(6, 14)
          /\ call.args[1].far = call.args[1].near => Unbounded(11, 15)
    /\ call.op = "Matrix4x4.frustum" =>
          /\ heap[call.ret].cls = "Matrix4x4"
          /\ call.args[1].right = call.args[1].left => Unbounded(1, 9)
          /\ call.args[1].top = call.args[1].bottom => Unbounded(6, 10)
          /\ call.args[1].far = call.args[1].near => Unbounded(11, 15)
    /\ (/\ call.op \in {"Float32Vector3.hom2cart", "Float32Vector4.hom2cart"}
        /\ heap[call.this].values[Len(heap[call.this].values)] = Zero) =>
          /\ Len(Result) = Len(heap[call.this].values) - 1
          /\ \A i \in 1..Len(Result) : ~IsFinite(Result[i])

\* hom2cart of a Float32Vector3 with z = 0, one non-zero and one zero
\* component: an Infinity and a NaN
C26_Witness ==
    /\ call.op = "Float32Vector3.hom2cart"
    /\ heap[call.this].values[3] = Zero
    /\ IsInf(Result[1])
    /\ IsNaN(Result[2])

---------------------------------------------------------------------------
(* Claims about rotationAround, projectiveTransform, products and lookAt *)

\* the quaternion (axis * sin(radian / 2), cos(radian / 2))
AxisQuaternion(axis, radian) ==
    LET sin == MathSin(ScaleAngle(Half, radian))
        cos == MathCos(ScaleAngle(Half, radian))
    IN  << Mul(axis[1], sin), Mul(axis[2], sin), Mul(axis[3], sin), cos >>

\* a + b for finite a and b, over the least common denominator
Plus(a, b) ==
    LET g == GCD(a[2], b[2])
    IN  Rat(a[1] * (b[2] \div g) + b[1] * (a[2] \div g), (a[2] \div g) * b[2])

\* the first three columns of the 4x4 matrix m, cut to three rows, are unit
\* vectors orthogonal to each other
Orthonormal(m) ==
    \A i, j \in 0..2 :
        Plus(Plus(Mul(m[4 * i + 1], m[4 * j + 1]), Mul(m[4 * i + 2], m[4 * j + 2])),
             Mul(m[4 * i + 3], m[4 * j + 3])) = (IF i = j THEN One ELSE Zero)

\* the matrix is the one of the quaternion built from the axis as given
RotationAroundOfQuaternion ==
    call.op = "Matrix4x4.rotationAround" =>
        Result = RotationValues(AxisQuaternion(heap[call.args[1]].values, call.args[2]))

\* a unit axis gives a unit quaternion and an orthonormal rotation part
UnitAxisOrthonormal ==
    (/\ call.op = "Matrix4x4.rotationAround"
     /\ SumSq(heap[call.args[1]].values) = One) =>
        /\ SumSq(AxisQuaternion(heap[call.args[1]].values, call.args[2])) = One
        /\ Orthonormal(Result)

\* C27 as stated: the matrix is the one of the quaternion (axis * sin(r / 2),
\* cos(r / 2)); a unit axis gives a unit quaternion and an orthonormal
\* rotation part; every other axis gives a quaternion that is not unit and a
\* rotation part that is not orthonormal.
C27_RotationAround ==
    /\ RotationAroundOfQuaternion
    /\ UnitAxisOrthonormal
    /\ (/\ call.op = "Matrix4x4.rotationAround"
        /\ SumSq(heap[call.args[1]].values) # One) =>
           /\ SumSq(AxisQuaternion(heap[call.args[1]].values, call.args[2])) # One
           /\ ~Orthonormal(Result)

\* C27: the matrix rotationAround returns is the one of the quaternion
\* (axis * sin(r / 2), cos(r / 2)); a unit axis gives a unit quaternion and an
\* orthonormal rotation part; an axis that is not unit gives, when sin(r / 2)
\* is not 0, a quaternion that is not unit and, when the axis is not the zero
\* vector either, a rotation part that is not orthonormal.
C27_RotationAroundTurned ==
    /\ RotationAroundOfQuaternion
    /\ UnitAxisOrthonormal
    /\ (/\ call.op = "Matrix4x4.rotationAround"
        /\ SumSq(heap[call.args[1]].values) # One
        /\ MathSin(ScaleAngle(Half, call.args[2])) # Zero) =>
           /\ SumSq(AxisQuaternion(heap[call.args[1]].values, call.args[2])) # One
           /\ ~AllZero(heap[call.args[1]].values) => ~Orthonormal(Result)

\* rotationAround of the axis (0, 0, 2) by an angle whose half has sine 3/5:
\* the matrix is returned and its rotation part is not orthonormal
C27_Witness ==
    /\ call.op = "Matrix4x4.rotationAround"
    /\ heap[call.args[1]].values = <<Zero, Zero, Two>>
    /\ MathSin(ScaleAngle(Half, call.args[2])) = Rat(3, 5)
    /\ Result[1] = Rat(-47, 25)
    /\ ~Orthonormal(Result)


\* the determinant of the 3x3 matrix of the column-major values m
Determinant3(m) ==
    Sub(Add(Add(Mul(m[1], Mul(m[5], m[9])), Mul(m[4], Mul(m[8], m[3]))),
            Mul(m[7], Mul(m[2], m[6]))),
        Add(Add(Mul(m[7], Mul(m[5], m[3])), Mul(m[4], Mul(m[2], m[9]))),
            Mul(m[1], Mul(m[8], m[6]))))

\* d123 * d124 * d134 * d234 of the quadrilateral q
DetsProduct(q) == Num(Dets(q)[1] * Dets(q)[2] * Dets(q)[3] * Dets(q)[4])

\* C28: for every quadrilateral, convex or not, projectiveTransform returns a
\* Matrix3x3 whose determinant is d123 * d124 * d134 * d234; the matrix is
\* singular exactly when one of the four determinants is 0.
C28_ProjectiveDeterminant ==
    call.op = "forward" =>
        /\ heap[call.this].cls = "Matrix3x3"
        /\ Determinant3(heap[call.this].values) = DetsProduct(call.args[1])
        /\ (Determinant3(heap[call.this].values) = Zero)
               <=> (\E i \in 1..4 : Dets(call.args[1])[i] = 0)

\* a quadrilateral that is not convex although none of its four determinants
\* is 0: the matrix returned is regular
C28_Witness ==
    /\ call.op = "forward"
    /\ ~Convex(call.args[1])
    /\ \A i \in 1..4 : Dets(call.args[1])[i] # 0
    /\ Determinant3(heap[call.this].values) = DetsProduct(call.args[1])
    /\ Determinant3(heap[call.this].values) # Zero


\* C29: (a.mulByMatrixNxN(b)).mulByVectorN(v) has the values of
\* a.mulByVectorN(b.mulByVectorN(v)) for N = 3 and N = 4, and
\* identity().translate(t).scale(s) maps (x, y, z, 1) to
\* (sx * x + tx, sy * y + ty, sz * z + tz, 1): the scale is applied first.
C29_ProductCompatibility ==
    /\ call.op \in {"productThenVector3", "productThenVector4"} =>
          Result = heap[call.args[4]].values
    /\ call.op = "translateThenScale" =>
          LET t == call.args[1]
              s == call.args[2]
              x == heap[call.args[3]].values
          IN  Result = << Add(Mul(s[1], x[1]), t[1]), Add(Mul(s[2], x[2]), t[2]),
                          Add(Mul(s[3], x[3]), t[3]), One >>

\* the chain applied to a point where scaling first and translating first
\* differ in every coordinate
C29_Witness ==
    /\ call.op = "translateThenScale"
    /\ call.args[1] = <<Num(2), Num(-1), Num(3)>>
    /\ call.args[2] = <<Half, Zero, Num(-2)>>
    /\ heap[call.args[3]].values = <<Num(2), Num(-1), Num(3), One>>
    /\ Result = <<Num(3), Num(-1), Num(-3), One>>


\* the line of sight eye - target of the last call and its cross product with up
Sight == Difference(heap[call.args[1]].values, heap[call.args[2]].values)

UpAcrossSight == CrossProduct(heap[call.args[3]].values, Sight)

\* C30: for eye # target and up not parallel to eye - target, the matrix of
\* lookAt maps (eye, 1) to (0, 0, 0, 1) and (target, 1) to
\* (0, 0, -|eye - target|, 1); for eye = target or up parallel to
\* eye - target the matrix is returned all the same, with zero x and y axes
\* (and a zero z axis when eye = target) and so a zero first row: it is
\* singular.
C30_ViewMatrix ==
    call.op = "viewPoints" =>
        /\ heap[call.this].cls = "Matrix4x4"
        /\ (~AllZero(Sight) /\ ~AllZero(UpAcrossSight)) =>
              /\ heap[call.args[4]].values = << Zero, Zero, Zero, One >>
              /\ Result = << Zero, Zero, Neg(Sqrt(SumSq(Sight))), One >>
        /\ (AllZero(Sight) \/ AllZero(UpAcrossSight)) =>
              /\ \A i \in {1, 5, 9, 13} : heap[call.this].values[i] = Zero
              /\ \A i \in {2, 6, 10, 14} : heap[call.this].values[i] = Zero
        /\ AllZero(Sight) =>
              \A i \in {3, 7, 11, 15} : heap[call.this].values[i] = Zero

\* an eye off the axes looking at a target that is not the origin, 25 away
C30_Witness ==
    /\ call.op = "viewPoints"
    /\ heap[call.args[1]].values = <<Num(13), Num(17), Num(19)>>
    /\ heap[call.args[2]].values = <<Num(1), Num(2), Num(3)>>
    /\ ~AllZero(UpAcrossSight)
    /\ heap[call.args[4]].values = << Zero, Zero, Zero, One >>
    /\ Result = << Zero, Zero, Num(-25), One >>

===========================================================================
